---- MODULE Spec2Model ----
(***************************************************************************)
(* A model of act-zero's mailbox: one actor spawned with Addr::new, its    *)
(* mutex_task, the strong/weak handles that feed it, the termination()     *)
(* future and the timeout timers built on send_fut.                        *)
(*                                                                         *)
(* One step of the mailbox is one resolution of a select_biased! block of  *)
(* mutex_task; the drops performed when mutex_task returns are separate    *)
(* steps, in the order Rust performs them, because other tasks run on      *)
(* other threads in between.                                               *)
(***************************************************************************)
EXTENDS Naturals, Sequences, FiniteSets

\* ---------------------------------------------------------------- bounds
MaxSends == 2        \* exclusive items sent from outside the actor
MaxStrong == 2       \* externally held strong handles at one time
MaxTime == 1         \* ticks of the clock
MaxSuspend == 1      \* times a method's future returns Pending
NumRegs == 3         \* registers holding handle values (AddrSpec)
NumActors == 2       \* actors spawned (AddrSpec)
NumArgs == 2         \* values passed to echo (CallSpec) and sent through a Produces (ProducesSpec)
MaxChain == 4        \* receivers chained in one Produces (ProducesSpec)
MaxItems == 3        \* items sent through RwLock::run and run_mut (RwSpec)
MaxFuts == 1         \* futures sent through RwLock::run_fut (RwSpec)
MaxClock == 1        \* ticks of the clock the Timer reads (TimerSpec)
MaxArm == 2          \* calls of set_* / run_with_timeout_* on the Timer (TimerSpec)

\* Duration of the timeouts the methods arm (set_timeout_for_*), in clock ticks.
TimeoutDur == 1

VARIABLES
    ctor,          \* position of Addr::new: "init", "spawned", "returned", "failed"
    pc,            \* position of mutex_task
    value,         \* the actor state owned by mutex_task
    mut_channel,   \* queue of the exclusive-item channel
    fut_channel,   \* queue of the background-future channel
    futs,          \* FuturesUnordered: the in-flight background futures
    current,       \* exclusive items whose future exists and has not resolved
    extStrong,     \* Addr values held outside the actor
    extWeak,       \* WeakAddr values held outside the actor
    termination,   \* the Termination future: "none", "pending", "ready", "resolved"
    termLive,      \* termination() was called while mutex_task was still in its loop
    now,           \* Instant::now()
    outcome,       \* the receiver returned by the latest echo: "none", "waiting", "value", "error"
    stopReason,    \* why mutex_task returned: "none", "terminate", "exhausted"
    startLog,      \* ids of exclusive items in the order of their first poll
    finishLog,     \* ids of exclusive items in the order they resolved
    drops,         \* number of times the actor state's destructor ran
    hookRuns,      \* number of times the started hook ran
    armed,         \* the timer futures accepted by the background channel: fid, handle kind, deadline
    ticked,        \* fids of the timer futures whose tick item ran to completion
    nextId,        \* id given to the next exclusive item accepted by the channel
    nextFid,       \* id given to the next background future
    sends,         \* items sent from outside so far
    produces,      \* the Produces of the one call! / call_fut made: "none", "deferred",
                   \* "value", "canceled" (sender dropped unsent), "dropped" (by the caller)
    wrappedPolls,  \* number of polls of the future wrapped by call_fut
    regs,          \* handle values held by a program, by register (AddrSpec)
    allocs,        \* number of Arc<AddrInner> allocations made so far (AddrSpec)
    entries,       \* the send_mut / send_fut fields of the handle in each register, with
                   \* the actor type the handle is declared for (AddrSpec)
    errorRuns,     \* number of times the error hook ran
    result,        \* <<v>> once the caller's Produces resolved to Ok(v), <<>> before
    asked,         \* <<x>> once the caller invoked call!(addr.echo(x)) (CallSpec)
    futsBefore,    \* pairs <<id, n>>: n background futures had been sent when the
                   \* exclusive item id was sent (CallSpec)
    prod,          \* the Produces a task polls: the chain of its receivers (ProducesSpec)
    pollOut,       \* what the latest poll of it returned (ProducesSpec)
    rw_pc,         \* position of rwlock_task: "acquire", "exclusive", "shared", "returned" (RwSpec)
    channel,       \* queue of the item channel of the RwLock (RwSpec)
    rw_fut_channel, \* queue of its background-future channel (RwSpec)
    rw_futs,       \* its in-flight background futures (RwSpec)
    shared,        \* the FuturesUnordered of rwlock_run_shared_tasks (RwSpec)
    exclusive,     \* the future of the exclusive item being run (RwSpec)
    rw_handles,    \* RwLock values held by the program (RwSpec)
    rw_finished,   \* ids of the items whose future resolved (RwSpec)
    rw_abandoned,  \* ids of the items dropped after their first poll and before they
                   \* resolved, each with the position of rwlock_task after the drop (RwSpec)
    rw_nextId,     \* id given to the next item sent (RwSpec)
    rw_nextFid,    \* id given to the next background future sent (RwSpec)
    timer,         \* Timer.state: the InternalTimerState (TimerSpec)
    t_now,         \* Instant::now() as the Timer reads it (TimerSpec)
    t_futs,        \* the futures the Timer passed to send_fut, by fid (TimerSpec)
    ticks,         \* the queued exclusive items made by send!(addr2.tick()) (TimerSpec)
    tickOut,       \* what the latest call of Timer::tick returned, the state it found and the
                   \* deadline of the future that sent the item (TimerSpec)
    trues,         \* calls of Timer::tick that returned true since the timer was set (TimerSpec)
    arms,          \* calls of set_* / run_with_timeout_* made so far (TimerSpec)
    t_nextFid      \* id given to the next future of the Timer (TimerSpec)

\* The state of the reader/writer generation.
rwVars == <<rw_pc, channel, rw_fut_channel, rw_futs, shared, exclusive, rw_handles,
            rw_finished, rw_abandoned, rw_nextId, rw_nextFid>>

\* The state of one Timer, of its futures and of the tick items they send.
timerVars == <<timer, t_now, t_futs, ticks, tickOut, trues, arms, t_nextFid>>

\* The state only the specifications of the other generation and of the timer write.
otherVars == <<rwVars, timerVars>>

\* The state of the mailbox, of its handles and of its callers.
mainVars == <<ctor, pc, value, mut_channel, fut_channel, futs, current, extStrong,
              extWeak, termination, termLive, now, outcome, stopReason, startLog,
              finishLog, drops, hookRuns, armed, ticked, nextId, nextFid, sends,
              produces, wrappedPolls, regs, allocs, entries, errorRuns, result, asked,
              futsBefore, prod, pollOut>>

vars == <<mainVars, otherVars>>

\* The part of the state the handle algebra works on, and the rest.
addrVars == <<regs, allocs, entries>>

mailboxVars == <<ctor, pc, value, mut_channel, fut_channel, futs, current, extStrong,
                 extWeak, termination, termLive, now, outcome, stopReason, startLog,
                 finishLog, drops, hookRuns, armed, ticked, nextId, nextFid, sends,
                 produces, wrappedPolls, errorRuns, result, asked, futsBefore, prod,
                 pollOut, otherVars>>

\* All but the Produces of ProducesSpec and what its poll returned.
mailboxVarsBut == <<ctor, pc, value, mut_channel, fut_channel, futs, current, extStrong,
                    extWeak, termination, termLive, now, outcome, stopReason, startLog,
                    finishLog, drops, hookRuns, armed, ticked, nextId, nextFid, sends,
                    produces, wrappedPolls, errorRuns, result, asked, futsBefore, regs,
                    allocs, entries, otherVars>>

\* What only the senders of CallSpec and the tasks of ProducesSpec write.
sideVars == <<asked, futsBefore, prod, pollOut, otherVars>>

\* ------------------------------------------------------------ data shapes

\* A MutItem built by send!: the closure captures addr2 (cap) and runs a method.
\* src is what else the closure moved in: the fid of the timer future for tick,
\* the argument for echo.
MutItem(id, kind, cap, effect, res, hook, susp, src) ==
    [id |-> id, kind |-> kind, cap |-> cap, effect |-> effect, res |-> res,
     hook |-> hook, susp |-> susp, src |-> src]

\* A FutItem: the timer future of set_timeout_internal or the wrapper of call_fut.
FutItem(fid, kind, cap, deadline) ==
    [fid |-> fid, kind |-> kind, cap |-> cap, deadline |-> deadline, polled |-> FALSE]

\* The methods an outside sender may invoke with send!.
Methods ==
    { [effect |-> "none",               res |-> "ok",  hook |-> FALSE, susp |-> 0],
      [effect |-> "none",               res |-> "ok",  hook |-> FALSE, susp |-> MaxSuspend],
      [effect |-> "none",               res |-> "err", hook |-> TRUE,  susp |-> 0],
      [effect |-> "set_timeout_strong", res |-> "ok",  hook |-> FALSE, susp |-> 0],
      [effect |-> "set_timeout_weak",   res |-> "ok",  hook |-> FALSE, susp |-> 0] }

Inactive == [st |-> "Inactive", deadline |-> 0]
Timeout(deadline) == [st |-> "Timeout", deadline |-> deadline]
IntervalWeak(addr, deadline, interval) ==
    [st |-> "IntervalWeak", addr |-> addr, deadline |-> deadline, interval |-> interval]
IntervalStrong(addr, deadline, interval) ==
    [st |-> "IntervalStrong", addr |-> addr, deadline |-> deadline, interval |-> interval]

\* The Timer keeps an Addr that shares the AddrInner.
TimerHolds(t) == t.st = "IntervalStrong" /\ t.addr = "strong"

\* No call of Timer::tick was made yet.
NoTick == [ret |-> FALSE, deadline |-> 0, before |-> Inactive]

\* What an outside sender sends through a WeakAddr.
WeakMethods == { m \in Methods : m.effect = "none" /\ m.susp = 0 }

SendsVia(via) == IF via = "strong" THEN Methods ELSE WeakMethods

\* What an outside sender invokes through an upcast handle: a method of the trait.
UpcastMethods == { m \in WeakMethods : m.res = "ok" }

\* What an outside caller invokes with call!: a method that returns its value at once.
CallMethods == { m \in WeakMethods : m.res = "ok" }

SeqToSet(s) == { s[i] : i \in 1..Len(s) }

\* ------------------------------------------------------- reference counts

StrongIn(S) == Cardinality({ x \in S : x.cap = "strong" })

\* Mutant: the closures and futures of the actor capture no handle.
StrongCountOutsideOnly == (IF ctor = "spawned" THEN 1 ELSE 0) + extStrong

\* The number of Arc<AddrInner> clones alive: the handle Addr::new is building,
\* the handles held outside, the addr2 captured by every queued or running
\* item, the handles captured by background futures and those kept in the state.
StrongCount ==
    (IF ctor = "spawned" THEN 1 ELSE 0)
    + extStrong
    + StrongIn(SeqToSet(mut_channel))
    + StrongIn({ c.item : c \in current })
    + StrongIn(SeqToSet(fut_channel))
    + StrongIn(futs)
    + (IF value.alive /\ value.kept THEN 1 ELSE 0)
    + (IF value.alive /\ TimerHolds(value.timer) THEN 1 ELSE 0)

\* Mutant: a WeakAddr held outside keeps the senders alive.
ChannelClosedNoWeak == StrongCount = 0 /\ extWeak = 0

\* Mutant: a background future holding a WeakAddr keeps the senders alive.
ChannelClosedNoWeakFuture ==
    StrongCount = 0 /\ \A f \in futs \cup SeqToSet(fut_channel) : f.cap # "weak"

\* Both senders live in AddrInner, which is dropped with the last Arc.
ChannelClosed == StrongCount = 0

\* upgrade_weak: Weak::upgrade succeeds while an Arc is alive.
upgrade_weak == StrongCount > 0

\* Mutant: a handle without an inner reference dispatches all the same.
ReachesAlways(cap) == TRUE

\* The function a handle of this kind carries in its send_mut / send_fut fields.
SendFn(cap) == IF cap = "detached" THEN "send_unreachable" ELSE "AddrInner::send"

\* Whether a handle of this kind reaches the AddrInner: an Addr with an inner
\* reference does, a WeakAddr does if it upgrades, a detached handle does not.
Reaches(cap) == cap = "strong" \/ (cap = "weak" /\ upgrade_weak)

\* WeakAddr::upgrade: a handle sharing the AddrInner if upgrade_weak finds one,
\* Addr::detached() otherwise.
upgrade(w) == IF w = "weak" /\ upgrade_weak THEN "strong" ELSE "detached"

\* The handle a method makes from the WeakAddr stored by started: self.addr.upgrade()
\* (detached when the upgrade fails) or self.addr.clone().
SelfAddr(kind) ==
    IF kind = "strong" THEN (IF upgrade_weak THEN "strong" ELSE "detached") ELSE "weak"

\* Mutant: the background receiver outlives mutex_task.
FutReceiverNeverDropped == TRUE

\* Mutant: the exclusive receiver outlives mutex_task.
MutReceiverNeverDropped == TRUE

MutReceiverAlive == pc \in {"acquire", "execute", "drop_futs", "drop_fut_channel", "drop_mut_channel"}
FutReceiverAlive == pc \in {"acquire", "execute", "drop_futs", "drop_fut_channel"}


\* --------------------------------------------------------- handle values

Regs == 1..NumRegs

\* The fields of an Addr or WeakAddr: inner is 0 for None, else the allocation;
\* view is the declared actor type, the concrete one or a trait object.
Handle(kind, inner, view) == [kind |-> kind, inner |-> inner, view |-> view]

\* A register holding no handle.
NoHandle == Handle("empty", 0, "concrete")

\* Addr::detached / WeakAddr::detached
detached(kind, view) == Handle(kind, 0, view)

\* The concrete actor type of an allocation: AddrInner<C> or AddrInner<D>.
TypeOf(a) == IF a % 2 = 1 THEN "C" ELSE "D"

ActorTypes == {"C", "D"}

\* Mutant: Weak::upgrade never succeeds.
ArcAliveNever(a) == FALSE

\* Weak::upgrade succeeds on an allocation: some Addr still shares it.
ArcAlive(a) == a # 0 /\ \E r \in Regs : regs[r].kind = "strong" /\ regs[r].inner = a

\* Addr::ptr and WeakAddr::ptr: the address of the allocation, or null (0).
\* A WeakAddr finds it through upgrade_weak.
ptr(h) ==
    IF h.kind = "strong" THEN h.inner
    ELSE IF ArcAlive(h.inner) THEN h.inner ELSE 0

\* PartialEq between Addr and WeakAddr of any actor types.
eq(h1, h2) == ptr(h1) = ptr(h2)

\* Addr::downgrade
downgrade(h) == Handle("weak", h.inner, h.view)

\* WeakAddr::upgrade on a handle value.
WeakAddr_upgrade(h) ==
    IF ArcAlive(h.inner) THEN Handle("strong", h.inner, h.view)
    ELSE detached("strong", h.view)

\* Addr::upcast / WeakAddr::upcast: same inner, send_mut becomes send_mut_upcasted.
upcast(h) == Handle(h.kind, h.inner, "dyn")

\* Mutant: downcast does not test the type of the allocation.
downcastUnchecked(h, U) == [ok |-> TRUE, addr |-> Handle("strong", h.inner, "concrete")]

\* Addr::downcast::<U>
downcast(h, U) ==
    IF h.inner # 0
    THEN IF TypeOf(h.inner) = U
         THEN [ok |-> TRUE, addr |-> Handle("strong", h.inner, "concrete")]
         ELSE [ok |-> FALSE, addr |-> h]
    ELSE [ok |-> TRUE, addr |-> detached("strong", "concrete")]

\* A function stored in a send_mut or send_fut field: its name and the T of the
\* AddrInner<T> it is an associated function of, which is the type its
\* downcast_ref unwraps to (send_unreachable has none).
Fn(name, ty) == [name |-> name, ty |-> ty]

\* The two fields of a handle, and the actor type T of Addr<T> / WeakAddr<T>:
\* "C", "D" or "dyn" for a trait object.
Entries(send_mut_field, send_fut_field, T) ==
    [send_mut |-> send_mut_field, send_fut |-> send_fut_field, T |-> T]

\* Addr::detached / WeakAddr::detached
detached_entries(T) ==
    Entries(Fn("send_unreachable", "none"), Fn("send_unreachable", "none"), T)

\* Addr::new
new_entries(T) == Entries(Fn("send_mut", T), Fn("send_fut", T), T)

\* Addr::upcast / WeakAddr::upcast on a handle declared for the concrete type T.
upcast_entries(e) == Entries(Fn("send_mut_upcasted", e.T), e.send_fut, "dyn")

\* Addr::downcast::<U>: Ok with the send_mut of AddrInner<U>, Err(self), or
\* Ok(Addr::detached()).
downcast_entries(h, e, U) ==
    IF h.inner # 0
    THEN IF downcast(h, U).ok THEN Entries(Fn("send_mut", U), e.send_fut, U) ELSE e
    ELSE detached_entries(U)

\* Mutant: upgrade builds its result with Addr::detached()'s fields.
upgrade_entriesDetached(h, e) == detached_entries(e.T)

\* WeakAddr::upgrade
upgrade_entries(h, e) == IF ArcAlive(h.inner) THEN e ELSE detached_entries(e.T)

\* The allocation whose mut_channel a send through the handle reaches, 0 for none:
\* send_mut and send_mut_upcasted both use the channel of the inner they are given.
QueueOf(h) ==
    IF h.kind = "strong" THEN h.inner
    ELSE IF ArcAlive(h.inner) THEN h.inner ELSE 0

\* ------------------------------------------------------------- Produces

\* A Produces as the chain it stands for: Produces::None, Produces::Value(v), or
\* Produces::Deferred(rx) by the state of the sender of rx: it sent a Produces
\* (which follows in the chain), it is alive and has not sent, or it was dropped
\* without sending.
P(t, v) == [t |-> t, v |-> v]

ProdValues == 1..NumArgs

\* What a poll gives: Poll::Pending, Poll::Ready(Ok(v)) or Poll::Ready(Err(Canceled)),
\* with the number of times its loop went round by `continue`.
PollResult(out, v, hops, self) == [out |-> out, v |-> v, hops |-> hops, self |-> self]

NotPolled == [out |-> "none", v |-> 0, hops |-> 0]

RECURSIVE pollLoop(_, _)
\* The loop of Produces::poll on *self = p, after hops rounds.
pollLoop(p, hops) ==
    LET h == Head(p)
    IN CASE h.t = "None"    -> PollResult("Canceled", 0, hops, <<P("None", 0)>>)
         [] h.t = "Value"   -> PollResult("Ok", h.v, hops, <<P("None", 0)>>)
         [] h.t = "Sent"    -> pollLoop(Tail(p), hops + 1)
         [] h.t = "Dropped" -> PollResult("Canceled", 0, hops, <<P("None", 0)>>)
         [] h.t = "Unsent"  -> PollResult("Pending", 0, hops, p)

\* Mutant: a received Produces is stored and left to the next poll.
pollOneStep(p) ==
    IF Head(p).t = "Sent"
    THEN PollResult("Pending", 0, 1, Tail(p))
    ELSE pollLoop(p, 0)

\* Produces::poll
poll(p) == pollLoop(p, 0)

\* ------------------------------------------------------------------ Init

Init ==
    /\ ctor = "init"
    /\ pc = "idle"
    /\ value = [alive |-> TRUE, timer |-> Inactive, response |-> "none", kept |-> FALSE]
    /\ mut_channel = <<>>
    /\ fut_channel = <<>>
    /\ futs = {}
    /\ current = {}
    /\ extStrong = 0
    /\ extWeak = 0
    /\ termination = "none"
    /\ termLive = FALSE
    /\ now = 0
    /\ outcome = "none"
    /\ stopReason = "none"
    /\ startLog = <<>>
    /\ finishLog = <<>>
    /\ drops = 0
    /\ hookRuns = 0
    /\ armed = {}
    /\ ticked = {}
    /\ nextId = 1
    /\ nextFid = 1
    /\ sends = 0
    /\ produces = "none"
    /\ wrappedPolls = 0
    /\ regs = [r \in Regs |-> NoHandle]
    /\ allocs = 0
    /\ entries = [r \in Regs |-> detached_entries("C")]
    /\ errorRuns = 0
    /\ result = <<>>
    /\ asked = <<>>
    /\ futsBefore = {}
    /\ prod = <<>>
    /\ pollOut = NotPolled
    /\ rw_pc = "acquire"
    /\ channel = <<>>
    /\ rw_fut_channel = <<>>
    /\ rw_futs = {}
    /\ shared = {}
    /\ exclusive = {}
    /\ rw_handles = 1
    /\ rw_finished = {}
    /\ rw_abandoned = {}
    /\ rw_nextId = 1
    /\ rw_nextFid = 1
    /\ timer = Inactive
    /\ t_now = 0
    /\ t_futs = {}
    /\ ticks = <<>>
    /\ tickOut = NoTick
    /\ trues = 0
    /\ arms = 0
    /\ t_nextFid = 1

\* ------------------------------------------------------- channel helpers

\* AddrInner::send_mut: unbounded_send(item).ok() appends unless the receiver is gone.
send_mut(q, item) == IF MutReceiverAlive THEN Append(q, item) ELSE q

\* AddrInner::send_fut: the same for the background channel.
send_fut(q, fut) == IF FutReceiverAlive THEN Append(q, fut) ELSE q

\* Mutant: the upcast view has a queue of its own, served first.
send_mut_upcastedAhead(q, item) == IF MutReceiverAlive THEN <<item>> \o q ELSE q

\* AddrInner::send_mut_upcasted: the item, wrapped to apply the upcast function,
\* is sent on the same mut_channel.
send_mut_upcasted(q, item) == IF MutReceiverAlive THEN Append(q, item) ELSE q

\* Mutant: the channel hands out the newest item first.
NextItemNewest(q) == q[Len(q)]

\* mut_channel.next() yields Some(item): the oldest queued item.
NextItem(q) == Head(q)

\* Mutant: an empty queue counts as exhausted, whoever still holds a sender.
MutChannelNoneWhenEmpty == mut_channel = <<>>

\* The handles a sender may use: an Addr, a WeakAddr, or a detached one of either type.
Vias == {"strong", "weak", "detached"}

\* Mutant: a closed channel yields None with items still queued.
MutChannelNoneWhenClosed == ChannelClosed

\* mut_channel.next() yields None: the queue is empty and every sender is gone.
MutChannelNone == mut_channel = <<>> /\ ChannelClosed

\* Mutant: the execute loop also selects on mut_channel.
MayDequeueWhileExecuting == pc \in {"acquire", "execute"}

\* The only place mutex_task takes an exclusive item is its acquire loop.
MayDequeue == pc = "acquire"

\* The wrapper call_fut sends: the wrapped future is ready at once ("call_ready")
\* or stays pending ("call_pending").
CallKinds == {"call_ready", "call_pending"}

IsCall(f) == f.kind \in CallKinds

\* Mutant: the wrapper never looks at tx.cancellation().
CancelledIgnored(f) == FALSE

\* tx.cancellation() of the wrapper is ready: the caller dropped the Produces.
Cancelled(f) == IsCall(f) /\ produces = "dropped"

\* The wrapper of call_fut completes on its next poll: cancelled, or the wrapped
\* future is ready.
CallReady(f) == Cancelled(f) \/ f.kind = "call_ready"

\* A background future resolves on its next poll: the delay of a timer has elapsed.
\* (The wrapper of termination() races a never-resolving future with the drop of
\* its receiver, which this model's awaiting task never does.)
Ready(f) == f.kind = "timer" /\ f.deadline <= now

\* Mutant: the exclusive channel is looked at before the in-flight set.
NothingToRunUnchecked == TRUE

\* futs.select_next_some() is Pending: every in-flight future has been polled and waits.
NothingToRun == \A f \in futs : f.polled /\ ~Ready(f) /\ ~CallReady(f)

\* Mutant: the execute loop selects on current_future alone.
BackgroundTurnAcquireOnly == pc = "acquire"

\* In the execute loop current_future is polled before any background work.
BackgroundTurn ==
    \/ pc = "acquire"
    \/ pc = "execute" /\ \A c \in current : c.st # "fresh"

\* Mutant: `break` on every result, the terminate signal is ignored.
AfterItemIgnoresDone(done) == "acquire"

\* What the loop does once the current item resolved to done.
AfterItem(done) == IF done THEN "drop_futs" ELSE "acquire"

\* Mutant: every error stops the actor, whatever the error hook returns.
DoneOnAnyError(item) == item.res = "err"

\* Mutant: the value of the error hook is discarded.
DoneNever(item) == FALSE

\* The terminate signal computed by the closure of send! from the method's result.
Done(item) == IF item.res = "err" THEN item.hook ELSE FALSE

\* ------------------------------------------------------------- Addr::new

\* spawner.spawn(mutex_task(value, mrx, frx)) succeeded.
NewSpawnOk ==
    /\ ctor = "init"
    /\ ctor' = "spawned"
    /\ pc' = "acquire"
    /\ UNCHANGED <<value, mut_channel, fut_channel, futs, current, extStrong, extWeak,
                   termination, termLive, now, outcome, stopReason, startLog, finishLog, drops,
                   hookRuns, armed, ticked, nextId, nextFid, sends>>
    /\ UNCHANGED <<produces, wrappedPolls>>
    /\ UNCHANGED addrVars
    /\ UNCHANGED <<errorRuns, result, sideVars>>

\* spawner.spawn(...)? failed: the task, and the state moved into it, is dropped unrun.
NewSpawnErr ==
    /\ ctor = "init"
    /\ ctor' = "failed"
    /\ value' = [value EXCEPT !.alive = FALSE]
    /\ drops' = drops + 1
    /\ UNCHANGED <<pc, mut_channel, fut_channel, futs, current, extStrong, extWeak,
                   termination, termLive, now, outcome, stopReason, startLog, finishLog,
                   hookRuns, armed, ticked, nextId, nextFid, sends>>
    /\ UNCHANGED <<produces, wrappedPolls>>
    /\ UNCHANGED addrVars
    /\ UNCHANGED <<errorRuns, result, sideVars>>

\* Mutant: Addr::new goes on to build the handle after spawn failed (no `?`).
NewStartedAfterSpawnError ==
    /\ ctor \in {"spawned", "failed"}
    /\ mut_channel' = Append(mut_channel,
                         MutItem(nextId, "started", "strong", "none", "ok", FALSE, 0, 0))
    /\ nextId' = nextId + 1
    /\ ctor' = "returned"
    /\ extStrong' = 1
    /\ UNCHANGED <<pc, value, fut_channel, futs, current, extWeak, termination, termLive, now,
                   outcome, stopReason, startLog, finishLog, drops, hookRuns, armed,
                   ticked, nextFid, sends>>
    /\ UNCHANGED <<produces, wrappedPolls>>
    /\ UNCHANGED addrVars
    /\ UNCHANGED <<errorRuns, result, sideVars>>

\* Mutant: Addr::new returns the handle without sending started.
EnqueueStartedOmitted(q, item) == q

\* send!(addr.started(addr.clone())) as Addr::new performs it.
EnqueueStarted(q, item) == send_mut(q, item)

\* send!(addr.started(addr.clone())); Ok(addr)
NewStarted ==
    /\ ctor = "spawned"
    /\ \E effect \in {"none", "keep_addr"} :
         mut_channel' = EnqueueStarted(mut_channel,
                          MutItem(nextId, "started", "strong", effect, "ok", FALSE, 0, 0))
    /\ nextId' = nextId + 1
    /\ ctor' = "returned"
    /\ extStrong' = 1
    /\ UNCHANGED <<pc, value, fut_channel, futs, current, extWeak, termination, termLive, now,
                   outcome, stopReason, startLog, finishLog, drops, hookRuns, armed,
                   ticked, nextFid, sends>>
    /\ UNCHANGED <<produces, wrappedPolls>>
    /\ UNCHANGED addrVars
    /\ UNCHANGED <<errorRuns, result, sideVars>>

\* ------------------------------------------------------ handles, outside

CloneAddr ==
    /\ extStrong > 0
    /\ extStrong < MaxStrong
    /\ extStrong' = extStrong + 1
    /\ UNCHANGED <<ctor, pc, value, mut_channel, fut_channel, futs, current, extWeak,
                   termination, termLive, now, outcome, stopReason, startLog, finishLog, drops,
                   hookRuns, armed, ticked, nextId, nextFid, sends>>
    /\ UNCHANGED <<produces, wrappedPolls>>
    /\ UNCHANGED addrVars
    /\ UNCHANGED <<errorRuns, result, sideVars>>

DropAddr ==
    /\ extStrong > 0
    /\ extStrong' = extStrong - 1
    /\ UNCHANGED <<ctor, pc, value, mut_channel, fut_channel, futs, current, extWeak,
                   termination, termLive, now, outcome, stopReason, startLog, finishLog, drops,
                   hookRuns, armed, ticked, nextId, nextFid, sends>>
    /\ UNCHANGED <<produces, wrappedPolls>>
    /\ UNCHANGED addrVars
    /\ UNCHANGED <<errorRuns, result, sideVars>>

\* Addr::downgrade
Downgrade ==
    /\ extStrong > 0
    /\ extWeak = 0
    /\ extWeak' = 1
    /\ UNCHANGED <<ctor, pc, value, mut_channel, fut_channel, futs, current, extStrong,
                   termination, termLive, now, outcome, stopReason, startLog, finishLog, drops,
                   hookRuns, armed, ticked, nextId, nextFid, sends>>
    /\ UNCHANGED <<produces, wrappedPolls>>
    /\ UNCHANGED addrVars
    /\ UNCHANGED <<errorRuns, result, sideVars>>

DropWeak ==
    /\ extWeak > 0
    /\ extWeak' = 0
    /\ UNCHANGED <<ctor, pc, value, mut_channel, fut_channel, futs, current, extStrong,
                   termination, termLive, now, outcome, stopReason, startLog, finishLog, drops,
                   hookRuns, armed, ticked, nextId, nextFid, sends>>
    /\ UNCHANGED <<produces, wrappedPolls>>
    /\ UNCHANGED addrVars
    /\ UNCHANGED <<errorRuns, result, sideVars>>

\* WeakAddr::upgrade, when it yields a handle that is not detached.
Upgrade ==
    /\ extWeak > 0
    /\ extStrong < MaxStrong
    /\ upgrade_weak
    /\ extStrong' = extStrong + 1
    /\ UNCHANGED <<ctor, pc, value, mut_channel, fut_channel, futs, current, extWeak,
                   termination, termLive, now, outcome, stopReason, startLog, finishLog, drops,
                   hookRuns, armed, ticked, nextId, nextFid, sends>>
    /\ UNCHANGED <<produces, wrappedPolls>>
    /\ UNCHANGED addrVars
    /\ UNCHANGED <<errorRuns, result, sideVars>>

\* The sender holds a handle of this kind; Addr::detached() is made at will.
HoldsHandle(via) ==
    \/ via = "strong" /\ extStrong > 0
    \/ via = "weak" /\ extWeak > 0
    \/ via = "detached"

\* send!(addr.method(...)) from outside, through an Addr or a WeakAddr.
Send(via, m) ==
    /\ sends < MaxSends
    /\ HoldsHandle(via)
    /\ sends' = sends + 1
    /\ IF Reaches(via) /\ MutReceiverAlive
       THEN /\ mut_channel' = send_mut(mut_channel,
                 MutItem(nextId, "method", via, m.effect, m.res, m.hook, m.susp, 0))
            /\ nextId' = nextId + 1
       ELSE UNCHANGED <<mut_channel, nextId>>
    /\ UNCHANGED <<ctor, pc, value, fut_channel, futs, current, extStrong, extWeak,
                   termination, termLive, now, outcome, stopReason, startLog, finishLog, drops,
                   hookRuns, armed, ticked, nextFid>>
    /\ UNCHANGED <<produces, wrappedPolls>>
    /\ UNCHANGED addrVars
    /\ UNCHANGED <<errorRuns, result, sideVars>>

\* send!(addr.method(...)) through upcast!(addr): the handle's send_mut field is
\* send_mut_upcasted.
SendUpcast(via, m) ==
    /\ sends < MaxSends
    /\ HoldsHandle(via)
    /\ sends' = sends + 1
    /\ IF Reaches(via) /\ MutReceiverAlive
       THEN /\ mut_channel' = send_mut_upcasted(mut_channel,
                 MutItem(nextId, "upcast", via, m.effect, m.res, m.hook, m.susp, 0))
            /\ nextId' = nextId + 1
       ELSE UNCHANGED <<mut_channel, nextId>>
    /\ UNCHANGED <<ctor, pc, value, fut_channel, futs, current, extStrong, extWeak,
                   termination, termLive, now, outcome, stopReason, startLog, finishLog, drops,
                   hookRuns, armed, ticked, nextFid, produces, wrappedPolls>>
    /\ UNCHANGED addrVars
    /\ UNCHANGED <<errorRuns, result, sideVars>>

\* call!(addr.method(...)) from outside: the item owns the sender of the Produces
\* returned; an item that is not accepted is dropped, and its sender with it.
Call(via, m) ==
    /\ sends < MaxSends
    /\ produces = "none"
    /\ HoldsHandle(via)
    /\ sends' = sends + 1
    /\ IF Reaches(via) /\ MutReceiverAlive
       THEN /\ mut_channel' = send_mut(mut_channel,
                 MutItem(nextId, "call", via, m.effect, m.res, m.hook, m.susp, 0))
            /\ nextId' = nextId + 1
            /\ produces' = "deferred"
       ELSE /\ produces' = "canceled"
            /\ UNCHANGED <<mut_channel, nextId>>
    /\ UNCHANGED <<ctor, pc, value, fut_channel, futs, current, extStrong, extWeak,
                   termination, termLive, now, outcome, stopReason, startLog, finishLog, drops,
                   hookRuns, armed, ticked, nextFid, wrappedPolls>>
    /\ UNCHANGED addrVars
    /\ UNCHANGED <<errorRuns, result, sideVars>>

\* addr.call_fut(fut) from outside: the wrapper owns the sender of the Produces
\* returned; a wrapper that is not accepted is dropped, and its sender with it.
CallFut(via, kind) ==
    /\ sends < MaxSends
    /\ produces = "none"
    /\ HoldsHandle(via)
    /\ sends' = sends + 1
    /\ IF Reaches(via) /\ FutReceiverAlive
       THEN /\ fut_channel' = send_fut(fut_channel, FutItem(nextFid, kind, "none", 0))
            /\ nextFid' = nextFid + 1
            /\ produces' = "deferred"
       ELSE /\ produces' = "canceled"
            /\ UNCHANGED <<fut_channel, nextFid>>
    /\ UNCHANGED <<ctor, pc, value, mut_channel, futs, current, extStrong, extWeak,
                   termination, termLive, now, outcome, stopReason, startLog, finishLog, drops,
                   hookRuns, armed, ticked, nextId, wrappedPolls>>
    /\ UNCHANGED addrVars
    /\ UNCHANGED <<errorRuns, result, sideVars>>

\* The caller drops the Produces before anything was sent through it.
DropProduces ==
    /\ produces = "deferred"
    /\ produces' = "dropped"
    /\ UNCHANGED <<ctor, pc, value, mut_channel, fut_channel, futs, current, extStrong,
                   extWeak, termination, termLive, now, outcome, stopReason, startLog,
                   finishLog, drops, hookRuns, armed, ticked, nextId, nextFid, sends,
                   wrappedPolls>>
    /\ UNCHANGED addrVars
    /\ UNCHANGED <<errorRuns, result, sideVars>>

\* addr.termination(): call_fut(future::pending()), the wrapper owning the sender.
RequestTermination(via) ==
    /\ termination = "none"
    /\ HoldsHandle(via)
    /\ IF Reaches(via) /\ FutReceiverAlive
       THEN /\ fut_channel' = send_fut(fut_channel, FutItem(nextFid, "term", "none", 0))
            /\ termination' = "pending"
            /\ nextFid' = nextFid + 1
       ELSE /\ termination' = "ready"
            /\ UNCHANGED <<fut_channel, nextFid>>
    /\ termLive' = (Reaches(via) /\ pc \in {"acquire", "execute"})
    /\ UNCHANGED <<ctor, pc, value, mut_channel, futs, current, extStrong, extWeak,
                   now, outcome, stopReason, startLog, finishLog, drops, hookRuns,
                   armed, ticked, nextId, sends>>
    /\ UNCHANGED <<produces, wrappedPolls>>
    /\ UNCHANGED addrVars
    /\ UNCHANGED <<errorRuns, result, sideVars>>

\* Termination::poll sees the sender gone and resolves.
AwaitTermination ==
    /\ termination = "ready"
    /\ termination' = "resolved"
    /\ UNCHANGED <<termLive, ctor, pc, value, mut_channel, fut_channel, futs, current, extStrong,
                   extWeak, now, outcome, stopReason, startLog, finishLog, drops,
                   hookRuns, armed, ticked, nextId, nextFid, sends>>
    /\ UNCHANGED <<produces, wrappedPolls>>
    /\ UNCHANGED addrVars
    /\ UNCHANGED <<errorRuns, result, sideVars>>

\* What a suspended method waits for arrives: its waker is called.
WakeCurrent(c) ==
    /\ c \in current
    /\ c.st = "pending"
    /\ current' = (current \ {c}) \cup {[c EXCEPT !.st = "woken"]}
    /\ UNCHANGED <<ctor, pc, value, mut_channel, fut_channel, futs, extStrong, extWeak,
                   termination, termLive, now, outcome, stopReason, startLog, finishLog, drops,
                   hookRuns, armed, ticked, nextId, nextFid, sends>>
    /\ UNCHANGED <<produces, wrappedPolls>>
    /\ UNCHANGED addrVars
    /\ UNCHANGED <<errorRuns, result, sideVars>>

\* A deadline lies ahead: in a queued or in-flight timer future, or in the Timer.
DeadlineAhead ==
    \/ \E f \in futs \cup SeqToSet(fut_channel) : f.kind = "timer" /\ f.deadline > now
    \/ value.timer.st = "Timeout" /\ value.timer.deadline > now

\* The clock advances. It is read only against deadlines (Instant::now() + duration
\* when arming, deadline <= Instant::now() when ticking), so its steps are taken
\* only while one lies ahead.
Advance ==
    /\ now < MaxTime
    /\ DeadlineAhead
    /\ now' = now + 1
    /\ UNCHANGED <<ctor, pc, value, mut_channel, fut_channel, futs, current, extStrong,
                   extWeak, termination, termLive, outcome, stopReason, startLog, finishLog,
                   drops, hookRuns, armed, ticked, nextId, nextFid, sends>>
    /\ UNCHANGED <<produces, wrappedPolls>>
    /\ UNCHANGED addrVars
    /\ UNCHANGED <<errorRuns, result, sideVars>>


\* ------------------------------------------------- background futures

\* futs.select_next_some(): an in-flight future is polled for the first time and
\* stays Pending (a timer registers its delay, the wrapper of termination() its
\* cancellation).
FutPoll(f) ==
    /\ BackgroundTurn
    /\ f \in futs
    /\ ~f.polled
    /\ ~Ready(f)
    /\ ~CallReady(f)
    /\ futs' = (futs \ {f}) \cup {[f EXCEPT !.polled = TRUE]}
    /\ wrappedPolls' = IF IsCall(f) THEN wrappedPolls + 1 ELSE wrappedPolls
    /\ UNCHANGED produces
    /\ UNCHANGED <<ctor, pc, value, mut_channel, fut_channel, current, extStrong,
                   extWeak, termination, termLive, now, outcome, stopReason, startLog, finishLog,
                   drops, hookRuns, armed, ticked, nextId, nextFid, sends>>
    /\ UNCHANGED addrVars
    /\ UNCHANGED <<errorRuns, result, sideVars>>

\* futs.select_next_some() yields: the timer future of set_timeout_internal ran
\* `delay.await; send!(addr2.tick());` to its end and leaves the set.
FutDone(f) ==
    /\ BackgroundTurn
    /\ f \in futs
    /\ Ready(f)
    /\ futs' = futs \ {f}
    /\ IF Reaches(f.cap) /\ MutReceiverAlive
       THEN /\ mut_channel' = send_mut(mut_channel,
                 MutItem(nextId, "tick", f.cap, "tick", "ok", FALSE, 0, f.fid))
            /\ nextId' = nextId + 1
       ELSE UNCHANGED <<mut_channel, nextId>>
    /\ UNCHANGED <<ctor, pc, value, fut_channel, current, extStrong, extWeak,
                   termination, termLive, now, outcome, stopReason, startLog, finishLog, drops,
                   hookRuns, armed, ticked, nextFid, sends>>
    /\ UNCHANGED <<produces, wrappedPolls>>
    /\ UNCHANGED addrVars
    /\ UNCHANGED <<errorRuns, result, sideVars>>

\* futs.select_next_some() yields the wrapper of call_fut: select_biased! takes
\* tx.cancellation() first, and only otherwise polls the wrapped future and
\* sends its result.
FutCallDone(f) ==
    /\ BackgroundTurn
    /\ f \in futs
    /\ CallReady(f)
    /\ futs' = futs \ {f}
    /\ IF Cancelled(f)
       THEN UNCHANGED <<produces, wrappedPolls, result>>
       ELSE /\ wrappedPolls' = wrappedPolls + 1
            /\ produces' = IF produces = "deferred" THEN "value" ELSE produces
            /\ result' = IF produces = "deferred" THEN <<0>> ELSE result
    /\ UNCHANGED <<ctor, pc, value, mut_channel, fut_channel, current, extStrong, extWeak,
                   termination, termLive, now, outcome, stopReason, startLog, finishLog, drops,
                   hookRuns, armed, ticked, nextId, nextFid, sends>>
    /\ UNCHANGED addrVars
    /\ UNCHANGED <<errorRuns, sideVars>>

\* ---------------------------------------------------- mutex_task: acquire

\* Mutant: the item is run and left at the head of the queue.
AcquireItemPeeks ==
    /\ MayDequeue
    /\ NothingToRun
    /\ mut_channel # <<>>
    /\ current' = current \cup {[item |-> NextItem(mut_channel), st |-> "fresh"]}
    /\ pc' = "execute"
    /\ UNCHANGED <<ctor, value, mut_channel, fut_channel, futs, extStrong, extWeak, termination,
                   termLive, now, outcome, stopReason, startLog, finishLog, drops, hookRuns,
                   armed, ticked, nextId, nextFid, sends>>
    /\ UNCHANGED <<produces, wrappedPolls>>
    /\ UNCHANGED addrVars
    /\ UNCHANGED <<errorRuns, result, sideVars>>

\* item = mut_channel.next() => break item
AcquireItem ==
    /\ MayDequeue
    /\ NothingToRun
    /\ mut_channel # <<>>
    /\ current' = current \cup {[item |-> NextItem(mut_channel), st |-> "fresh"]}
    /\ mut_channel' = SelectSeq(mut_channel, LAMBDA x : x # NextItem(mut_channel))
    /\ pc' = "execute"
    /\ UNCHANGED <<ctor, value, fut_channel, futs, extStrong, extWeak, termination, termLive, now,
                   outcome, stopReason, startLog, finishLog, drops, hookRuns, armed,
                   ticked, nextId, nextFid, sends>>
    /\ UNCHANGED <<produces, wrappedPolls>>
    /\ UNCHANGED addrVars
    /\ UNCHANGED <<errorRuns, result, sideVars>>

\* item = mut_channel.next() => None => true => return
AcquireNone ==
    /\ pc = "acquire"
    /\ NothingToRun
    /\ MutChannelNone
    /\ pc' = "drop_futs"
    /\ stopReason' = "exhausted"
    /\ UNCHANGED <<ctor, value, mut_channel, fut_channel, futs, current, extStrong,
                   extWeak, termination, termLive, now, outcome, startLog, finishLog, drops,
                   hookRuns, armed, ticked, nextId, nextFid, sends>>
    /\ UNCHANGED <<produces, wrappedPolls>>
    /\ UNCHANGED addrVars
    /\ UNCHANGED <<errorRuns, result, sideVars>>

\* item = fut_channel.select_next_some() => futs.push(item), reached only when
\* mut_channel.next() was Pending.
AcquireFut ==
    /\ pc = "acquire"
    /\ NothingToRun
    /\ mut_channel = <<>>
    /\ ~MutChannelNone
    /\ fut_channel # <<>>
    /\ futs' = futs \cup {Head(fut_channel)}
    /\ fut_channel' = Tail(fut_channel)
    /\ UNCHANGED <<ctor, pc, value, mut_channel, current, extStrong, extWeak,
                   termination, termLive, now, outcome, stopReason, startLog, finishLog, drops,
                   hookRuns, armed, ticked, nextId, nextFid, sends>>
    /\ UNCHANGED <<produces, wrappedPolls>>
    /\ UNCHANGED addrVars
    /\ UNCHANGED <<errorRuns, result, sideVars>>

\* ---------------------------------------------------- mutex_task: execute

\* The future set_timeout_internal builds: `delay.await; send!(addr2.tick());`.
TimerFut(cap) == FutItem(nextFid, "timer", cap, now + TimeoutDur)

\* Timer::set_timeout_internal: addr.send_fut(async { delay.await; send!(addr2.tick()) }).
set_timeout_internal(q, cap) == IF Reaches(cap) THEN send_fut(q, TimerFut(cap)) ELSE q

\* Timer::tick on the state the method sees.
timer_tick(t) == t.st = "Timeout" /\ t.deadline <= now

ArmsTimer(item) == item.effect \in {"set_timeout_strong", "set_timeout_weak"}
\* The kind of handle the method passes: set_timeout_for_strong(self.addr.upgrade(), ..)
\* or set_timeout_for_weak(self.addr.clone(), ..).
RequestedCap(item) == IF item.effect = "set_timeout_strong" THEN "strong" ELSE "weak"

\* Mutant: the timer future captures a downgraded handle.
TimerCapDowngraded(item) == "weak"

\* The handle captured by the timer future: addr2 = addr.clone(), of the same kind.
TimerCap(item) == SelfAddr(RequestedCap(item))

\* The state after the body of the method of `item` ran.
ValueAfter(item) ==
    CASE item.effect = "keep_addr" -> [value EXCEPT !.kept = TRUE]
      [] ArmsTimer(item) ->
            [value EXCEPT !.timer = Timeout(now + TimeoutDur), !.response = "held"]
      [] item.effect = "tick" /\ timer_tick(value.timer) ->
            [value EXCEPT !.timer = Inactive, !.response = "none"]
      [] OTHER -> value

\* current_future is polled and returns Pending.
ExecSuspend(c) ==
    /\ pc = "execute"
    /\ c \in current
    /\ c.st \in {"fresh", "woken"}
    /\ c.item.susp > 0
    /\ current' = (current \ {c}) \cup
                    {[item |-> [c.item EXCEPT !.susp = c.item.susp - 1], st |-> "pending"]}
    /\ startLog' = IF c.st = "fresh" THEN Append(startLog, c.item.id) ELSE startLog
    /\ UNCHANGED <<ctor, pc, value, mut_channel, fut_channel, futs, extStrong, extWeak,
                   termination, termLive, now, outcome, stopReason, finishLog, drops, hookRuns,
                   armed, ticked, nextId, nextFid, sends>>
    /\ UNCHANGED <<produces, wrappedPolls>>
    /\ UNCHANGED addrVars
    /\ UNCHANGED <<errorRuns, result, sideVars>>

\* Mutant: echo forgets its argument.
ReturnsDefault(item) == 0

\* The value the method gives back in Ok(Produces::Value(..)): echo(x) gives the
\* argument the closure moved in, any other method the unit value (0).
Returns(item) == item.src

\* Mutant: call! sends the error through the channel as well.
ProducesAfterSendsAlways(item) ==
    IF item.kind = "call" /\ produces = "deferred" THEN "value" ELSE produces

\* The caller's Produces once the closure of call! has run: Ok(x) is sent through
\* tx; on Err the closure ends with tx unsent, which drops it.
ProducesAfter(item) ==
    IF item.kind = "call" /\ produces = "deferred"
    THEN (IF item.res = "ok" THEN "value" ELSE "canceled")
    ELSE produces

\* The number of calls of Actor::error the closure of send! / call! makes.
ErrorCalls(item) == IF item.res = "err" THEN 1 ELSE 0

\* done = current_future => if done { return } else { break }
ExecResolve(c) ==
    /\ pc = "execute"
    /\ c \in current
    /\ c.st \in {"fresh", "woken"}
    /\ c.item.susp = 0
    /\ current' = current \ {c}
    /\ startLog' = IF c.st = "fresh" THEN Append(startLog, c.item.id) ELSE startLog
    /\ finishLog' = Append(finishLog, c.item.id)
    /\ hookRuns' = IF c.item.kind = "started" THEN hookRuns + 1 ELSE hookRuns
    /\ value' = ValueAfter(c.item)
    /\ IF ArmsTimer(c.item)
       THEN /\ fut_channel' = set_timeout_internal(fut_channel, TimerCap(c.item))
            /\ armed' = IF Reaches(TimerCap(c.item)) /\ FutReceiverAlive
                        THEN armed \cup {[fid |-> nextFid, cap |-> RequestedCap(c.item),
                                           deadline |-> now + TimeoutDur]}
                        ELSE armed
            /\ nextFid' = nextFid + 1
            /\ outcome' = "waiting"
       ELSE /\ UNCHANGED <<fut_channel, armed, nextFid>>
            /\ outcome' = IF c.item.effect = "tick" /\ timer_tick(value.timer)
                          THEN "value" ELSE outcome
    /\ ticked' = IF c.item.kind = "tick" THEN ticked \cup {c.item.src} ELSE ticked
    /\ pc' = AfterItem(Done(c.item))
    /\ stopReason' = IF Done(c.item) THEN "terminate" ELSE stopReason
    /\ UNCHANGED <<ctor, mut_channel, futs, extStrong, extWeak, termination, termLive, now,
                   drops, nextId, sends>>
    /\ produces' = ProducesAfter(c.item)
    /\ result' = IF c.item.kind = "call" /\ ProducesAfter(c.item) = "value" /\ produces = "deferred"
                  THEN <<Returns(c.item)>> ELSE result
    /\ errorRuns' = errorRuns + ErrorCalls(c.item)
    /\ UNCHANGED wrappedPolls
    /\ UNCHANGED addrVars
    /\ UNCHANGED sideVars

\* item = fut_channel.select_next_some() => futs.push(item)
ExecFut ==
    /\ pc = "execute"
    /\ BackgroundTurn
    /\ NothingToRun
    /\ fut_channel # <<>>
    /\ futs' = futs \cup {Head(fut_channel)}
    /\ fut_channel' = Tail(fut_channel)
    /\ UNCHANGED <<ctor, pc, value, mut_channel, current, extStrong, extWeak,
                   termination, termLive, now, outcome, stopReason, startLog, finishLog, drops,
                   hookRuns, armed, ticked, nextId, nextFid, sends>>
    /\ UNCHANGED <<produces, wrappedPolls>>
    /\ UNCHANGED addrVars
    /\ UNCHANGED <<errorRuns, result, sideVars>>

\* ------------------------------------------- mutex_task: drops on return

\* Mutant: only a wrapper that was polled releases its sender when dropped.
HoldsTerminationPolled(S) == \E f \in S : f.kind = "term" /\ f.polled

\* The wrapper of termination() is among these futures: dropping them drops its sender.
HoldsTermination(S) == \E f \in S : f.kind = "term"

\* Mutant: a dropped queue leaks the senders its items own.
ProducesAfterDropLeaked(S) == produces

\* The Produces once these futures or items are dropped: a sender among them is
\* dropped unsent.
ProducesAfterDrop(S) ==
    IF produces = "deferred" /\ \E x \in S : x.kind \in CallKinds \cup {"call"}
    THEN "canceled" ELSE produces

\* `futs` is a local: it is dropped first, with every unfinished future in it.
DropFuts ==
    /\ pc = "drop_futs"
    /\ futs' = {}
    /\ termination' = IF HoldsTermination(futs) THEN "ready" ELSE termination
    /\ pc' = "drop_fut_channel"
    /\ UNCHANGED <<termLive, ctor, value, mut_channel, fut_channel, current, extStrong, extWeak,
                   now, outcome, stopReason, startLog, finishLog, drops, hookRuns,
                   armed, ticked, nextId, nextFid, sends>>
    /\ produces' = ProducesAfterDrop(futs)
    /\ UNCHANGED wrappedPolls
    /\ UNCHANGED addrVars
    /\ UNCHANGED <<errorRuns, result, sideVars>>

\* Parameters are dropped after the locals, last parameter first: fut_channel.
DropFutChannel ==
    /\ pc = "drop_fut_channel"
    /\ fut_channel' = <<>>
    /\ termination' = IF HoldsTermination(SeqToSet(fut_channel)) THEN "ready" ELSE termination
    /\ pc' = "drop_mut_channel"
    /\ UNCHANGED <<termLive, ctor, value, mut_channel, futs, current, extStrong, extWeak, now,
                   outcome, stopReason, startLog, finishLog, drops, hookRuns, armed,
                   ticked, nextId, nextFid, sends>>
    /\ produces' = ProducesAfterDrop(SeqToSet(fut_channel))
    /\ UNCHANGED wrappedPolls
    /\ UNCHANGED addrVars
    /\ UNCHANGED <<errorRuns, result, sideVars>>

\* Then mut_channel, with the items still queued.
DropMutChannel ==
    /\ pc = "drop_mut_channel"
    /\ mut_channel' = <<>>
    /\ pc' = "drop_value"
    /\ UNCHANGED <<ctor, value, fut_channel, futs, current, extStrong, extWeak,
                   termination, termLive, now, outcome, stopReason, startLog, finishLog, drops,
                   hookRuns, armed, ticked, nextId, nextFid, sends>>
    /\ produces' = ProducesAfterDrop(SeqToSet(mut_channel))
    /\ UNCHANGED wrappedPolls
    /\ UNCHANGED addrVars
    /\ UNCHANGED <<errorRuns, result, sideVars>>

\* Then value, the first parameter: the state's destructor runs.
DropValue ==
    /\ pc = "drop_value"
    /\ value' = [alive |-> FALSE, timer |-> Inactive, response |-> "none", kept |-> FALSE]
    /\ outcome' = IF value.response = "held" THEN "error" ELSE outcome
    /\ drops' = drops + 1
    /\ pc' = "done"
    /\ UNCHANGED <<ctor, mut_channel, fut_channel, futs, current, extStrong, extWeak,
                   termination, termLive, now, stopReason, startLog, finishLog, hookRuns, armed,
                   ticked, nextId, nextFid, sends>>
    /\ UNCHANGED <<produces, wrappedPolls>>
    /\ UNCHANGED addrVars
    /\ UNCHANGED <<errorRuns, result, sideVars>>

\* ------------------------------------------------------------------ Next

Mailbox ==
    \/ \E f \in futs : FutPoll(f)
    \/ \E f \in futs : FutDone(f)
    \/ \E f \in futs : FutCallDone(f)
    \/ AcquireItem
    \/ AcquireNone
    \/ AcquireFut
    \/ \E c \in current : ExecSuspend(c)
    \/ \E c \in current : ExecResolve(c)
    \/ ExecFut
    \/ DropFuts
    \/ DropFutChannel
    \/ DropMutChannel
    \/ DropValue

Outside ==
    \/ NewSpawnOk
    \/ NewSpawnErr
    \/ NewStarted
    \/ CloneAddr
    \/ DropAddr
    \/ Downgrade
    \/ DropWeak
    \/ Upgrade
    \/ \E via \in Vias : \E m \in SendsVia(via) : Send(via, m)
    \/ \E via \in Vias : \E m \in UpcastMethods : SendUpcast(via, m)
    \/ \E via \in Vias : \E m \in CallMethods : Call(via, m)
    \/ \E via \in Vias : \E kind \in CallKinds : CallFut(via, kind)
    \/ DropProduces
    \/ \E via \in Vias : RequestTermination(via)
    \/ AwaitTermination
    \/ \E c \in current : WakeCurrent(c)
    \/ Advance

Next == Mailbox \/ Outside

Spec == Init /\ [][Next]_vars

\* The executor polls a woken task, and what a suspended method waits for arrives.
FairSpec == Spec /\ WF_vars(Mailbox) /\ WF_vars(\E c \in current : WakeCurrent(c))

\* ---------------------------------------------------- the handle algebra
\* A program holding handle values in registers and applying the operations of
\* Addr and WeakAddr to them; the actors run no methods.

Held(r) == regs[r].kind # "empty"

\* Addr::new: a fresh allocation, and the strong handle to it.
RegNew(r) ==
    /\ ~Held(r)
    /\ allocs < NumActors
    /\ allocs' = allocs + 1
    /\ regs' = [regs EXCEPT ![r] = Handle("strong", allocs + 1, "concrete")]
    /\ entries' = [entries EXCEPT ![r] = new_entries(TypeOf(allocs + 1))]
    /\ UNCHANGED mailboxVars

\* Addr::detached / WeakAddr::detached / Default
RegDetached(r, kind) ==
    /\ ~Held(r)
    /\ regs' = [regs EXCEPT ![r] = detached(kind, "concrete")]
    /\ \E T \in ActorTypes : entries' = [entries EXCEPT ![r] = detached_entries(T)]
    /\ UNCHANGED <<mailboxVars, allocs>>

\* Clone for Addr and WeakAddr
RegClone(r, r2) ==
    /\ Held(r)
    /\ ~Held(r2)
    /\ regs' = [regs EXCEPT ![r2] = regs[r]]
    /\ entries' = [entries EXCEPT ![r2] = entries[r]]
    /\ UNCHANGED <<mailboxVars, allocs>>

\* Dropping a handle; the last strong one takes the actor with it.
RegDrop(r) ==
    /\ Held(r)
    /\ regs' = [regs EXCEPT ![r] = NoHandle]
    /\ entries' = [entries EXCEPT ![r] = detached_entries("C")]
    /\ UNCHANGED <<mailboxVars, allocs>>

RegDowngrade(r, r2) ==
    /\ regs[r].kind = "strong"
    /\ ~Held(r2)
    /\ regs' = [regs EXCEPT ![r2] = downgrade(regs[r])]
    /\ entries' = [entries EXCEPT ![r2] = entries[r]]
    /\ UNCHANGED <<mailboxVars, allocs>>

RegUpgrade(r, r2) ==
    /\ regs[r].kind = "weak"
    /\ ~Held(r2)
    /\ regs' = [regs EXCEPT ![r2] = WeakAddr_upgrade(regs[r])]
    /\ entries' = [entries EXCEPT ![r2] = upgrade_entries(regs[r], entries[r])]
    /\ UNCHANGED <<mailboxVars, allocs>>

\* upcast consumes the handle of the concrete type.
RegUpcast(r) ==
    /\ Held(r)
    /\ regs[r].view = "concrete"
    /\ regs' = [regs EXCEPT ![r] = upcast(regs[r])]
    /\ entries' = [entries EXCEPT ![r] = upcast_entries(entries[r])]
    /\ UNCHANGED <<mailboxVars, allocs>>

\* downcast consumes the handle and gives one back in Ok and in Err.
RegDowncast(r, U) ==
    /\ regs[r].kind = "strong"
    /\ regs' = [regs EXCEPT ![r] = downcast(regs[r], U).addr]
    /\ entries' = [entries EXCEPT ![r] = downcast_entries(regs[r], entries[r], U)]
    /\ UNCHANGED <<mailboxVars, allocs>>

AddrNext ==
    \/ \E r \in Regs : RegNew(r)
    \/ \E r \in Regs, kind \in {"strong", "weak"} : RegDetached(r, kind)
    \/ \E r, r2 \in Regs : RegClone(r, r2)
    \/ \E r \in Regs : RegDrop(r)
    \/ \E r, r2 \in Regs : RegDowngrade(r, r2)
    \/ \E r, r2 \in Regs : RegUpgrade(r, r2)
    \/ \E r \in Regs : RegUpcast(r)
    \/ \E r \in Regs, U \in ActorTypes : RegDowncast(r, U)

AddrSpec == Init /\ [][AddrNext]_vars

\* ------------------------------------------------ errors and call results
\* An actor whose methods return at once, with Ok or Err, whose error hook may be
\* overridden, and a caller that holds the Addr, sends methods, calls echo and
\* spawns one future with call_fut.

\* Actor::error as the trait defines it: log and stop.
DefaultError == TRUE

\* The methods sent: one returning Ok, one returning Err on an actor with the
\* default error hook, one returning an Err for which an overriding hook returns false.
HookMethods ==
    { [effect |-> "none", res |-> "ok",  hook |-> FALSE,        susp |-> 0],
      [effect |-> "none", res |-> "err", hook |-> DefaultError, susp |-> 0],
      [effect |-> "none", res |-> "err", hook |-> FALSE,        susp |-> 0] }

EchoArgs == 1..NumArgs

\* Addr::new on an actor whose started returns Err: send!(addr.started(addr.clone())).
NewStartedErr(hook) ==
    /\ ctor = "spawned"
    /\ mut_channel' = EnqueueStarted(mut_channel,
                         MutItem(nextId, "started", "strong", "none", "err", hook, 0, 0))
    /\ nextId' = nextId + 1
    /\ ctor' = "returned"
    /\ extStrong' = 1
    /\ UNCHANGED <<pc, value, fut_channel, futs, current, extWeak, termination, termLive, now,
                   outcome, stopReason, startLog, finishLog, drops, hookRuns, armed,
                   ticked, nextFid, sends, produces, wrappedPolls>>
    /\ UNCHANGED addrVars
    /\ UNCHANGED <<errorRuns, result, sideVars>>

\* send!(addr.method()) through the Addr, noting how many background futures this
\* sender had sent before it.
SendOrdered(m) ==
    /\ sends < MaxSends
    /\ extStrong > 0
    /\ sends' = sends + 1
    /\ IF MutReceiverAlive
       THEN /\ mut_channel' = send_mut(mut_channel,
                 MutItem(nextId, "method", "strong", m.effect, m.res, m.hook, m.susp, 0))
            /\ nextId' = nextId + 1
            /\ futsBefore' = futsBefore \cup {<<nextId, nextFid - 1>>}
       ELSE UNCHANGED <<mut_channel, nextId, futsBefore>>
    /\ UNCHANGED <<ctor, pc, value, fut_channel, futs, current, extStrong, extWeak,
                   termination, termLive, now, outcome, stopReason, startLog, finishLog, drops,
                   hookRuns, armed, ticked, nextFid, produces, wrappedPolls>>
    /\ UNCHANGED addrVars
    /\ UNCHANGED <<errorRuns, result, asked, prod, pollOut, otherVars>>

\* call!(addr.echo(x)) through the Addr: echo returns Ok(Value(x)), or an Err.
CallEcho(m, x) ==
    /\ sends < MaxSends
    /\ produces = "none"
    /\ extStrong > 0
    /\ sends' = sends + 1
    /\ asked' = <<x>>
    /\ IF MutReceiverAlive
       THEN /\ mut_channel' = send_mut(mut_channel,
                 MutItem(nextId, "call", "strong", m.effect, m.res, m.hook, m.susp, x))
            /\ nextId' = nextId + 1
            /\ produces' = "deferred"
       ELSE /\ produces' = "canceled"
            /\ UNCHANGED <<mut_channel, nextId>>
    /\ UNCHANGED <<ctor, pc, value, fut_channel, futs, current, extStrong, extWeak,
                   termination, termLive, now, outcome, stopReason, startLog, finishLog, drops,
                   hookRuns, armed, ticked, nextFid, wrappedPolls>>
    /\ UNCHANGED addrVars
    /\ UNCHANGED <<errorRuns, result, futsBefore, prod, pollOut, otherVars>>

\* The steps of mutex_task an actor of this kind takes: its items never suspend.
CallMailbox ==
    \/ \E f \in futs : FutPoll(f)
    \/ \E f \in futs : FutCallDone(f)
    \/ AcquireItem
    \/ AcquireNone
    \/ AcquireFut
    \/ \E c \in current : ExecResolve(c)
    \/ DropFuts
    \/ DropFutChannel
    \/ DropMutChannel
    \/ DropValue

CallOutside ==
    \/ NewSpawnOk
    \/ NewStarted
    \/ \E hook \in BOOLEAN : NewStartedErr(hook)
    \/ DropAddr
    \/ \E m \in HookMethods : SendOrdered(m)
    \/ \E m \in HookMethods, x \in EchoArgs : CallEcho(m, x)
    \/ \E kind \in CallKinds : CallFut("strong", kind)

CallNext == CallMailbox \/ CallOutside

CallSpec == Init /\ [][CallNext]_vars

\* The executor polls the mailbox task whenever it has a step to take.
CallFairSpec == CallSpec /\ WF_vars(CallMailbox)

\* ------------------------------------------------- a Produces and its senders
\* A task that makes a Produces and polls it, and the tasks that hold the
\* senders along its chain.

Innermost(p) == p[Len(p)]

\* Produces::None, Produces::Value(v), or Produces::Deferred(rx) of a new channel.
ProdNew(t, v) ==
    /\ prod = <<>>
    /\ prod' = <<P(t, v)>>
    /\ UNCHANGED <<mailboxVarsBut, pollOut>>

\* tx.send(producer) on the innermost sender: the producer is None, Value(v) or
\* a Deferred of a further channel.
ProdSend(t, v) ==
    /\ prod # <<>>
    /\ Innermost(prod).t = "Unsent"
    /\ t = "Unsent" => Len(prod) < MaxChain
    /\ prod' = SubSeq(prod, 1, Len(prod) - 1) \o <<P("Sent", 0), P(t, v)>>
    /\ UNCHANGED <<mailboxVarsBut, pollOut>>

\* The innermost sender is dropped without sending.
ProdDropSender ==
    /\ prod # <<>>
    /\ Innermost(prod).t = "Unsent"
    /\ prod' = SubSeq(prod, 1, Len(prod) - 1) \o <<P("Dropped", 0)>>
    /\ UNCHANGED <<mailboxVarsBut, pollOut>>

\* The task polls the Produces; it does not poll it again once it was Ready.
ProdPoll ==
    /\ prod # <<>>
    /\ pollOut.out \in {"none", "Pending"}
    /\ pollOut' = [out |-> poll(prod).out, v |-> poll(prod).v, hops |-> poll(prod).hops]
    /\ prod' = poll(prod).self
    /\ UNCHANGED mailboxVarsBut

ProducesNext ==
    \/ \E t \in {"None", "Unsent"} : ProdNew(t, 0)
    \/ \E v \in ProdValues : ProdNew("Value", v)
    \/ \E t \in {"None", "Unsent"} : ProdSend(t, 0)
    \/ \E v \in ProdValues : ProdSend("Value", v)
    \/ ProdDropSender
    \/ ProdPoll

ProducesSpec == Init /\ [][ProducesNext]_vars


\* ------------------------------------- the reader/writer generation (RwSpec)
\* sync/rwlock.rs: one task owns the value and alternates between running one
\* exclusive item and running a set of shared items.  One step of the task is
\* one resolution of a select_biased! block, or the first poll of a shared
\* future that returns Pending.

\* Everything but the state of the reader/writer generation.
exceptRw == <<mainVars, timerVars>>

\* The future of an item (ExclusiveItem / SharedItem called on the value) or a
\* FutureItem: left is the number of times it still returns Pending, done the
\* bool it resolves to.
RwItem(id, kind, left, done) ==
    [id |-> id, kind |-> kind, left |-> left, done |-> done, polled |-> FALSE]

\* The receivers live in rwlock_task.
RwReceiverAlive == rw_pc # "returned"

\* The futures of a FuturesUnordered that resolve at their next poll.
RwReady(S) == {f \in S : f.left = 0}

\* `complete`: every stream of the select has terminated.
RwComplete(streams) ==
    /\ streams = {}
    /\ rw_futs = {}
    /\ rw_handles = 0
    /\ channel = <<>>
    /\ rw_fut_channel = <<>>

\* The started futures among S, dropped before they resolved.
RwAbandon(S, at) == {<<f.id, at>> : f \in {g \in S : g.polled}}

\* rwlock_task returns: its locals and parameters are dropped.
RwReturn ==
    /\ rw_pc' = "returned"
    /\ rw_abandoned' = rw_abandoned \cup RwAbandon(shared \cup exclusive, "returned")
    /\ shared' = {}
    /\ exclusive' = {}
    /\ rw_futs' = {}
    /\ channel' = <<>>
    /\ rw_fut_channel' = <<>>

\* RwLock::run_mut
run_mut(left, done) ==
    /\ rw_handles > 0
    /\ rw_nextId <= MaxItems
    /\ channel' = IF RwReceiverAlive
                  THEN Append(channel, RwItem(rw_nextId, "Exclusive", left, done))
                  ELSE channel
    /\ rw_nextId' = rw_nextId + 1
    /\ UNCHANGED <<rw_pc, rw_fut_channel, rw_futs, shared, exclusive, rw_handles,
                   rw_finished, rw_abandoned, rw_nextFid>>
    /\ UNCHANGED exceptRw

\* RwLock::run
run(left, done) ==
    /\ rw_handles > 0
    /\ rw_nextId <= MaxItems
    /\ channel' = IF RwReceiverAlive
                  THEN Append(channel, RwItem(rw_nextId, "Shared", left, done))
                  ELSE channel
    /\ rw_nextId' = rw_nextId + 1
    /\ UNCHANGED <<rw_pc, rw_fut_channel, rw_futs, shared, exclusive, rw_handles,
                   rw_finished, rw_abandoned, rw_nextFid>>
    /\ UNCHANGED exceptRw

\* RwLock::run_fut
run_fut(left, done) ==
    /\ rw_handles > 0
    /\ rw_nextFid <= MaxFuts
    /\ rw_fut_channel' = IF RwReceiverAlive
                         THEN Append(rw_fut_channel, RwItem(rw_nextFid, "Future", left, done))
                         ELSE rw_fut_channel
    /\ rw_nextFid' = rw_nextFid + 1
    /\ UNCHANGED <<rw_pc, channel, rw_futs, shared, exclusive, rw_handles,
                   rw_finished, rw_abandoned, rw_nextId>>
    /\ UNCHANGED exceptRw

\* The program drops its RwLock: both senders go.
RwDropLock ==
    /\ rw_handles > 0
    /\ rw_handles' = rw_handles - 1
    /\ UNCHANGED <<rw_pc, channel, rw_fut_channel, rw_futs, shared, exclusive,
                   rw_finished, rw_abandoned, rw_nextId, rw_nextFid>>
    /\ UNCHANGED exceptRw

\* What a pending shared or exclusive future waits for happens.
RwWake(f) ==
    /\ f.polled
    /\ f.left > 0
    /\ \/ f \in shared /\ shared' = (shared \ {f}) \cup {[f EXCEPT !.left = f.left - 1]}
                       /\ UNCHANGED exclusive
       \/ f \in exclusive /\ exclusive' = {[f EXCEPT !.left = f.left - 1]}
                          /\ UNCHANGED shared
    /\ UNCHANGED <<rw_pc, channel, rw_fut_channel, rw_futs, rw_handles,
                   rw_finished, rw_abandoned, rw_nextId, rw_nextFid>>
    /\ UNCHANGED exceptRw

\* What a pending background future waits for happens.
RwWakeFut(f) ==
    /\ f \in rw_futs
    /\ f.left > 0
    /\ rw_futs' = (rw_futs \ {f}) \cup {[f EXCEPT !.left = f.left - 1]}
    /\ UNCHANGED <<rw_pc, channel, rw_fut_channel, shared, exclusive, rw_handles,
                   rw_finished, rw_abandoned, rw_nextId, rw_nextFid>>
    /\ UNCHANGED exceptRw

\* Every select has the branch `done = futs.select_next_some()`: in the loops
\* that run items a true ends rwlock_task.
RwFutDone(f) ==
    /\ rw_pc \in {"acquire", "exclusive", "shared"}
    /\ f \in RwReady(rw_futs)
    /\ rw_pc = "exclusive" => RwReady(exclusive) = {} /\ \A g \in exclusive : g.polled
    /\ rw_pc = "shared" => RwReady(shared) = {} /\ \A g \in shared : g.polled
    /\ IF f.done
       THEN RwReturn
       ELSE /\ rw_futs' = rw_futs \ {f}
            /\ UNCHANGED <<rw_pc, channel, rw_fut_channel, shared, exclusive,
                           rw_abandoned>>
    /\ UNCHANGED <<rw_handles, rw_finished, rw_nextId, rw_nextFid>>
    /\ UNCHANGED exceptRw

\* Every select has the branch `item = fut_channel.select_next_some()`, last
\* before `complete`.
RwFutArrive ==
    /\ rw_pc \in {"acquire", "exclusive", "shared"}
    /\ rw_fut_channel # <<>>
    /\ RwReady(rw_futs) = {}
    /\ rw_pc = "exclusive" => RwReady(exclusive) = {} /\ \A g \in exclusive : g.polled
    /\ rw_pc = "shared" => RwReady(shared) = {} /\ \A g \in shared : g.polled
    /\ rw_pc \in {"acquire", "shared"} => channel = <<>>
    /\ rw_futs' = rw_futs \cup {Head(rw_fut_channel)}
    /\ rw_fut_channel' = Tail(rw_fut_channel)
    /\ UNCHANGED <<rw_pc, channel, shared, exclusive, rw_handles,
                   rw_finished, rw_abandoned, rw_nextId, rw_nextFid>>
    /\ UNCHANGED exceptRw

\* rwlock_run_exclusive_tasks, second loop: the next item of the channel.  A
\* shared item is returned to rwlock_task, which hands it to
\* rwlock_run_shared_tasks; an exclusive one becomes `initial`.
RwAcquireItem ==
    /\ rw_pc = "acquire"
    /\ RwReady(rw_futs) = {}
    /\ channel # <<>>
    /\ LET item == Head(channel) IN
        /\ channel' = Tail(channel)
        /\ IF item.kind = "Shared"
           THEN /\ rw_pc' = "shared"
                /\ shared' = {item}
                /\ UNCHANGED exclusive
           ELSE /\ rw_pc' = "exclusive"
                /\ exclusive' = {item}
                /\ UNCHANGED shared
    /\ UNCHANGED <<rw_fut_channel, rw_futs, rw_handles, rw_finished,
                   rw_abandoned, rw_nextId, rw_nextFid>>
    /\ UNCHANGED exceptRw

\* rwlock_run_exclusive_tasks, second loop: `complete => true`.
RwAcquireNone ==
    /\ rw_pc = "acquire"
    /\ RwComplete({})
    /\ RwReturn
    /\ UNCHANGED <<rw_handles, rw_finished, rw_nextId, rw_nextFid>>
    /\ UNCHANGED exceptRw

\* rwlock_run_exclusive_tasks, first loop: the poll of `exclusive` returns Pending.
RwExclusivePoll(f) ==
    /\ rw_pc = "exclusive"
    /\ f \in exclusive
    /\ ~f.polled
    /\ f.left > 0
    /\ exclusive' = {[f EXCEPT !.polled = TRUE]}
    /\ UNCHANGED <<rw_pc, channel, rw_fut_channel, rw_futs, shared, rw_handles,
                   rw_finished, rw_abandoned, rw_nextId, rw_nextFid>>
    /\ UNCHANGED exceptRw

\* rwlock_run_exclusive_tasks, first loop: `done = exclusive`.
RwExclusiveDone(f) ==
    /\ rw_pc = "exclusive"
    /\ f \in RwReady(exclusive)
    /\ rw_finished' = rw_finished \cup {f.id}
    /\ IF f.done
       THEN /\ rw_pc' = "returned"
            /\ rw_abandoned' = rw_abandoned \cup RwAbandon(shared, "returned")
            /\ shared' = {}
            /\ exclusive' = {}
            /\ rw_futs' = {}
            /\ channel' = <<>>
            /\ rw_fut_channel' = <<>>
       ELSE /\ rw_pc' = "acquire"
            /\ exclusive' = {}
            /\ UNCHANGED <<channel, rw_fut_channel, rw_futs, shared, rw_abandoned>>
    /\ UNCHANGED <<rw_handles, rw_nextId, rw_nextFid>>
    /\ UNCHANGED exceptRw

\* rwlock_run_shared_tasks: the poll of a shared future just pushed returns Pending.
RwSharedPoll(f) ==
    /\ rw_pc = "shared"
    /\ f \in shared
    /\ ~f.polled
    /\ f.left > 0
    /\ shared' = (shared \ {f}) \cup {[f EXCEPT !.polled = TRUE]}
    /\ UNCHANGED <<rw_pc, channel, rw_fut_channel, rw_futs, exclusive, rw_handles,
                   rw_finished, rw_abandoned, rw_nextId, rw_nextFid>>
    /\ UNCHANGED exceptRw

\* rwlock_run_shared_tasks: `done = shared.select_next_some()`.
RwSharedDone(f) ==
    /\ rw_pc = "shared"
    /\ f \in RwReady(shared)
    /\ rw_finished' = rw_finished \cup {f.id}
    /\ IF f.done
       THEN /\ rw_pc' = "returned"
            /\ rw_abandoned' = rw_abandoned \cup RwAbandon(shared \ {f}, "returned")
            /\ shared' = {}
            /\ exclusive' = {}
            /\ rw_futs' = {}
            /\ channel' = <<>>
            /\ rw_fut_channel' = <<>>
       ELSE /\ shared' = shared \ {f}
            /\ UNCHANGED <<rw_pc, channel, rw_fut_channel, rw_futs, exclusive,
                           rw_abandoned>>
    /\ UNCHANGED <<rw_handles, rw_nextId, rw_nextFid>>
    /\ UNCHANGED exceptRw

\* A task that kept the shared futures alive across the exclusive item.
SharedAfterExclusiveKept(S) == S

\* What becomes of `shared` when rwlock_run_shared_tasks returns the exclusive
\* item it received: the FuturesUnordered is a local of the function and is
\* dropped with every future still in it.
SharedAfterExclusive(S) == {}

\* rwlock_run_shared_tasks: `item = channel.select_next_some()`.  An exclusive
\* item is returned at once (`return Some(task)`), rwlock_task passes it to
\* rwlock_run_exclusive_tasks as `initial`; a shared item joins `shared`.
RwSharedItem ==
    /\ rw_pc = "shared"
    /\ RwReady(shared) = {}
    /\ \A g \in shared : g.polled
    /\ RwReady(rw_futs) = {}
    /\ channel # <<>>
    /\ LET item == Head(channel) IN
        /\ channel' = Tail(channel)
        /\ IF item.kind = "Exclusive"
           THEN /\ rw_pc' = "exclusive"
                /\ exclusive' = {item}
                /\ shared' = SharedAfterExclusive(shared)
                /\ rw_abandoned' = rw_abandoned \cup
                                   RwAbandon(shared \ SharedAfterExclusive(shared), "exclusive")
           ELSE /\ shared' = shared \cup {item}
                /\ UNCHANGED <<rw_pc, exclusive, rw_abandoned>>
    /\ UNCHANGED <<rw_fut_channel, rw_futs, rw_handles, rw_finished,
                   rw_nextId, rw_nextFid>>
    /\ UNCHANGED exceptRw

\* rwlock_run_shared_tasks: `complete => true`.
RwSharedNone ==
    /\ rw_pc = "shared"
    /\ RwComplete(shared)
    /\ RwReturn
    /\ UNCHANGED <<rw_handles, rw_finished, rw_nextId, rw_nextFid>>
    /\ UNCHANGED exceptRw

RwTask ==
    \/ \E f \in rw_futs : RwFutDone(f)
    \/ RwFutArrive
    \/ RwAcquireItem
    \/ RwAcquireNone
    \/ \E f \in exclusive : RwExclusivePoll(f)
    \/ \E f \in exclusive : RwExclusiveDone(f)
    \/ \E f \in shared : RwSharedPoll(f)
    \/ \E f \in shared : RwSharedDone(f)
    \/ RwSharedItem
    \/ RwSharedNone

RwOutside ==
    \/ \E left \in 0..1, done \in BOOLEAN : run_mut(left, done)
    \/ \E left \in 0..1, done \in BOOLEAN : run(left, done)
    \/ \E left \in 0..1, done \in BOOLEAN : run_fut(left, done)
    \/ RwDropLock
    \/ \E f \in shared \cup exclusive : RwWake(f)
    \/ \E f \in rw_futs : RwWakeFut(f)

RwNext == RwTask \/ RwOutside

RwSpec == Init /\ [][RwNext]_vars


\* ------------------------------------------------------- the Timer (TimerSpec)
\* timer.rs: one Timer in the state of an actor whose mailbox runs, the futures
\* it hands to send_fut and the tick items these send.  The methods of the
\* actor set and clear the timer; its Tick::tick calls Timer::tick.

\* Everything but the state of the Timer.
exceptTimer == <<mainVars, rwVars>>

\* The durations the methods pass.
Durations == 0..1
Intervals == 1..1

\* The future of set_timeout_internal / set_interval_at_*_internal:
\* `delay.await; send!(addr2.tick());`.
DelayFut(fid, deadline) ==
    [fid |-> fid, kind |-> "delay", deadline |-> deadline, phase |-> "delay",
     task |-> "none", left |-> 0, woken |-> FALSE, polls |-> 0, sent |-> <<>>]

\* The future of run_with_timeout_internal, its select not yet resolved; the
\* task f(addr2.clone()) returns Pending `left` times.
RunFut(fid, deadline, left) ==
    [fid |-> fid, kind |-> "run", deadline |-> deadline, phase |-> "select",
     task |-> "running", left |-> left, woken |-> TRUE, polls |-> 0, sent |-> <<>>]

\* The Delay of the runtime has completed.
Elapsed(deadline) == deadline <= t_now

\* A Timer whose timeout stays set after it fired.
tickKeepsTimeout(t, at) ==
    IF t.st = "Timeout" /\ t.deadline <= at
    THEN [ret |-> TRUE, state |-> t, rearm |-> <<>>]
    ELSE [ret |-> FALSE, state |-> t, rearm |-> <<>>]

\* A Timer that takes every tick item for its own deadline.
tickOnEveryItem(t, at) ==
    IF t.st = "Timeout"
    THEN [ret |-> TRUE, state |-> Inactive, rearm |-> <<>>]
    ELSE [ret |-> FALSE, state |-> t, rearm |-> <<>>]

\* A Timer that moves the deadline of an interval without sending the future.
tickNoFuture(t, at) ==
    IF t.st = "IntervalStrong" /\ t.deadline <= at
    THEN [ret |-> TRUE, state |-> IntervalStrong(t.addr, t.deadline + t.interval, t.interval),
          rearm |-> <<>>]
    ELSE [ret |-> FALSE, state |-> t, rearm |-> <<>>]

\* Timer::tick with Instant::now() = at: what it returns, the state it leaves and
\* the deadline of the future it sends (set_interval_at_*_internal), if any.
tick(t, at) ==
    CASE t.st = "Inactive" -> [ret |-> FALSE, state |-> Inactive, rearm |-> <<>>]
      [] t.st = "Timeout" ->
            IF t.deadline <= at
            THEN [ret |-> TRUE, state |-> Inactive, rearm |-> <<>>]
            ELSE [ret |-> FALSE, state |-> Timeout(t.deadline), rearm |-> <<>>]
      [] t.st = "IntervalWeak" ->
            IF t.deadline <= at
            THEN [ret |-> TRUE,
                  state |-> IntervalWeak(t.addr, t.deadline + t.interval, t.interval),
                  rearm |-> <<t.deadline + t.interval>>]
            ELSE [ret |-> FALSE, state |-> IntervalWeak(t.addr, t.deadline, t.interval),
                  rearm |-> <<>>]
      [] t.st = "IntervalStrong" ->
            IF t.deadline <= at
            THEN [ret |-> TRUE,
                  state |-> IntervalStrong(t.addr, t.deadline + t.interval, t.interval),
                  rearm |-> <<t.deadline + t.interval>>]
            ELSE [ret |-> FALSE, state |-> IntervalStrong(t.addr, t.deadline, t.interval),
                  rearm |-> <<>>]

\* A method calls set_timeout_for_weak / set_timeout_for_strong.
set_timeout(d) ==
    /\ arms < MaxArm
    /\ arms' = arms + 1
    /\ t_futs' = t_futs \cup {DelayFut(t_nextFid, t_now + d)}
    /\ t_nextFid' = t_nextFid + 1
    /\ timer' = Timeout(t_now + d)
    /\ trues' = 0
    /\ UNCHANGED <<t_now, ticks, tickOut>>
    /\ UNCHANGED exceptTimer

\* A method calls set_interval_at_weak / set_interval_at_strong.
set_interval_at(strong, d, interval) ==
    /\ arms < MaxArm
    /\ arms' = arms + 1
    /\ t_futs' = t_futs \cup {DelayFut(t_nextFid, t_now + d)}
    /\ t_nextFid' = t_nextFid + 1
    /\ timer' = IF strong THEN IntervalStrong("strong", t_now + d, interval)
                ELSE IntervalWeak("weak", t_now + d, interval)
    /\ trues' = 0
    /\ UNCHANGED <<t_now, ticks, tickOut>>
    /\ UNCHANGED exceptTimer

\* A method calls run_with_timeout_weak / run_with_timeout_strong.
run_with_timeout(d, left) ==
    /\ arms < MaxArm
    /\ arms' = arms + 1
    /\ t_futs' = t_futs \cup {RunFut(t_nextFid, t_now + d, left)}
    /\ t_nextFid' = t_nextFid + 1
    /\ timer' = Timeout(t_now + d)
    /\ trues' = 0
    /\ UNCHANGED <<t_now, ticks, tickOut>>
    /\ UNCHANGED exceptTimer

\* A method calls Timer::clear.
clear ==
    /\ timer # Inactive
    /\ timer' = Inactive
    /\ UNCHANGED <<t_now, t_futs, ticks, tickOut, trues, arms, t_nextFid>>
    /\ UNCHANGED exceptTimer

\* The clock advances.
TimerAdvance ==
    /\ t_now < MaxClock
    /\ t_now' = t_now + 1
    /\ UNCHANGED <<timer, t_futs, ticks, tickOut, trues, arms, t_nextFid>>
    /\ UNCHANGED exceptTimer

\* send!(addr2.tick()) at the end of a future of the Timer.
TickItem(f) == [fid |-> f.fid, deadline |-> f.deadline]

\* The future `delay.await; send!(addr2.tick());` is polled once its Delay has
\* completed, and ends.
DelayDone(f) ==
    /\ f \in t_futs
    /\ f.kind = "delay"
    /\ f.phase = "delay"
    /\ Elapsed(f.deadline)
    /\ t_futs' = t_futs \ {f}
    /\ ticks' = Append(ticks, TickItem(f))
    /\ UNCHANGED <<timer, t_now, tickOut, trues, arms, t_nextFid>>
    /\ UNCHANGED exceptTimer

\* What the task of run_with_timeout waits for happens.
TaskWake(f) ==
    /\ f \in t_futs
    /\ f.task = "running"
    /\ ~f.woken
    /\ t_futs' = (t_futs \ {f}) \cup {[f EXCEPT !.woken = TRUE]}
    /\ UNCHANGED <<timer, t_now, ticks, tickOut, trues, arms, t_nextFid>>
    /\ UNCHANGED exceptTimer

\* A future that sends the tick as soon as its task has completed.
AfterTaskSendsAtOnce(f) == [f EXCEPT !.phase = "done", !.sent = Append(f.sent, t_now)]

\* What the future of run_with_timeout does once its task has completed:
\* `delay.await` and then the send.
AfterTask(f) ==
    IF Elapsed(f.deadline)
    THEN [f EXCEPT !.phase = "done", !.sent = Append(f.sent, t_now)]
    ELSE [f EXCEPT !.phase = "wait"]

\* One poll of the future of run_with_timeout_internal in its select_biased!:
\* the task is polled first, the Delay second; when the Delay wins the task is
\* dropped and the tick is sent.
RunPoll(f) ==
    /\ f \in t_futs
    /\ f.kind = "run"
    /\ f.phase = "select"
    /\ f.woken \/ Elapsed(f.deadline)
    /\ LET polled == IF f.woken
                     THEN [f EXCEPT !.polls = f.polls + 1, !.woken = FALSE,
                                    !.left = IF f.left > 0 THEN f.left - 1 ELSE 0]
                     ELSE f
           g == IF f.woken /\ f.left = 0
                THEN AfterTask([polled EXCEPT !.task = "finished"])
                ELSE IF Elapsed(f.deadline)
                     THEN [polled EXCEPT !.task = "dropped", !.phase = "done",
                                        !.sent = Append(f.sent, t_now)]
                     ELSE polled
       IN /\ t_futs' = (t_futs \ {f}) \cup {g}
          /\ ticks' = IF g.phase = "done" THEN Append(ticks, TickItem(f)) ELSE ticks
    /\ UNCHANGED <<timer, t_now, tickOut, trues, arms, t_nextFid>>
    /\ UNCHANGED exceptTimer

\* The future of run_with_timeout_internal in `delay.await` after its task.
RunDelayDone(f) ==
    /\ f \in t_futs
    /\ f.kind = "run"
    /\ f.phase = "wait"
    /\ Elapsed(f.deadline)
    /\ t_futs' = (t_futs \ {f}) \cup
                   {[f EXCEPT !.phase = "done", !.sent = Append(f.sent, t_now)]}
    /\ ticks' = Append(ticks, TickItem(f))
    /\ UNCHANGED <<timer, t_now, tickOut, trues, arms, t_nextFid>>
    /\ UNCHANGED exceptTimer

\* The mailbox runs the next tick item: Tick::tick of the actor calls
\* self.timer.tick(), which re-arms an interval timer that fired.
TickRun ==
    /\ ticks # <<>>
    /\ LET r == tick(timer, t_now) IN
        /\ timer' = r.state
        /\ tickOut' = [ret |-> r.ret, deadline |-> Head(ticks).deadline, before |-> timer]
        /\ trues' = IF r.ret THEN trues + 1 ELSE trues
        /\ IF r.rearm # <<>>
           THEN /\ t_futs' = t_futs \cup {DelayFut(t_nextFid, r.rearm[1])}
                /\ t_nextFid' = t_nextFid + 1
           ELSE UNCHANGED <<t_futs, t_nextFid>>
    /\ ticks' = Tail(ticks)
    /\ UNCHANGED <<t_now, arms>>
    /\ UNCHANGED exceptTimer

TimerNext ==
    \/ \E d \in Durations : set_timeout(d)
    \/ \E strong \in BOOLEAN, d \in Durations, i \in Intervals : set_interval_at(strong, d, i)
    \/ \E d \in Durations, left \in 0..1 : run_with_timeout(d, left)
    \/ clear
    \/ TimerAdvance
    \/ \E f \in t_futs : DelayDone(f)
    \/ \E f \in t_futs : TaskWake(f)
    \/ \E f \in t_futs : RunPoll(f)
    \/ \E f \in t_futs : RunDelayDone(f)
    \/ TickRun

TimerSpec == Init /\ [][TimerNext]_vars


\* ------------------------------------- interval timers in the mailbox (IntervalSpec)
\* An actor whose methods set and clear an interval timer kept in its state,
\* with Instant::now() as the start, and whose Tick::tick calls Timer::tick.

IntervalMethods ==
    { [effect |-> "set_interval_strong", res |-> "ok",  hook |-> FALSE, susp |-> 0],
      [effect |-> "clear",               res |-> "ok",  hook |-> FALSE, susp |-> 0],
      [effect |-> "none",                res |-> "err", hook |-> TRUE,  susp |-> 0] }

\* The Timer after the body of the method of `item` ran; addr is the handle the
\* method made with self.addr.upgrade().
TimerAfter(item, addr) ==
    CASE item.effect = "set_interval_strong" -> IntervalStrong(addr, now, TimeoutDur)
      [] item.effect = "clear" -> Inactive
      [] item.effect = "tick" -> tick(value.timer, now).state
      [] OTHER -> value.timer

\* The future the method passes to send_fut, if any, as <<handle, deadline>>:
\* set_interval_at_strong_internal, called by set_interval_strong and by Timer::tick.
IntervalFut(item, addr) ==
    CASE item.effect = "set_interval_strong" -> <<addr, now>>
      [] item.effect = "tick" /\ tick(value.timer, now).rearm # <<>> ->
            <<value.timer.addr, tick(value.timer, now).rearm[1]>>
      [] OTHER -> <<>>

\* done = current_future, for the methods of this actor.
ExecInterval(c) ==
    /\ pc = "execute"
    /\ c \in current
    /\ c.st = "fresh"
    /\ c.item.susp = 0
    /\ current' = current \ {c}
    /\ startLog' = Append(startLog, c.item.id)
    /\ finishLog' = Append(finishLog, c.item.id)
    /\ hookRuns' = IF c.item.kind = "started" THEN hookRuns + 1 ELSE hookRuns
    /\ LET addr == SelfAddr("strong")
           fut == IntervalFut(c.item, addr)
       IN /\ value' = [value EXCEPT !.timer = TimerAfter(c.item, addr),
                                    !.kept = value.kept \/ c.item.effect = "keep_addr"]
          /\ IF fut # <<>>
             THEN /\ fut_channel' = IF Reaches(fut[1])
                                    THEN send_fut(fut_channel,
                                                  FutItem(nextFid, "timer", fut[1], fut[2]))
                                    ELSE fut_channel
                  /\ nextFid' = nextFid + 1
             ELSE UNCHANGED <<fut_channel, nextFid>>
    /\ ticked' = IF c.item.kind = "tick" THEN ticked \cup {c.item.src} ELSE ticked
    /\ pc' = AfterItem(Done(c.item))
    /\ stopReason' = IF Done(c.item) THEN "terminate" ELSE stopReason
    /\ errorRuns' = errorRuns + ErrorCalls(c.item)
    /\ UNCHANGED <<ctor, mut_channel, futs, extStrong, extWeak, termination, termLive, now,
                   outcome, drops, armed, nextId, sends>>
    /\ UNCHANGED <<produces, wrappedPolls, result>>
    /\ UNCHANGED addrVars
    /\ UNCHANGED sideVars

IntervalMailbox ==
    \/ \E f \in futs : FutPoll(f)
    \/ \E f \in futs : FutDone(f)
    \/ AcquireItem
    \/ AcquireNone
    \/ AcquireFut
    \/ \E c \in current : ExecInterval(c)
    \/ DropFuts
    \/ DropFutChannel
    \/ DropMutChannel
    \/ DropValue

IntervalOutside ==
    \/ NewSpawnOk
    \/ NewStarted
    \/ DropAddr
    \/ \E m \in IntervalMethods : Send("strong", m)
    \/ Advance

IntervalNext == IntervalMailbox \/ IntervalOutside

IntervalSpec == Init /\ [][IntervalNext]_vars


\* ================================================================ claims

InLoop == pc \in {"acquire", "execute"}
Returned == pc \in {"drop_futs", "drop_fut_channel", "drop_mut_channel", "drop_value", "done"}

\* C1: at every reachable state at most one exclusive item has a future that
\* exists and has not resolved; no second item is taken from the channel while
\* the current one is suspended, whatever is queued behind it.
C1_OneExclusiveItem ==
    /\ Cardinality(current) <= 1
    /\ current # {} => pc = "execute"

\* C1 witness: the current item is suspended while senders have queued more.
C1_Witness ==
    /\ \E c \in current : c.st = "pending"
    /\ Len(mut_channel) >= 1
    /\ extStrong = MaxStrong

IsEnqueueOrder(log) == \A i \in 1..Len(log) : log[i] = i

\* C2: the exclusive items are started, and finished, in the order in which the
\* channel accepted them (ids are handed out in that order): both logs are
\* 1, 2, 3, ... whatever the items' duration and the background work in between.
C2_FifoOrder ==
    /\ IsEnqueueOrder(startLog)
    /\ IsEnqueueOrder(finishLog)
    /\ Len(startLog) < nextId

\* C2 witness: three items ran in order, one of them the tick a timer future enqueued.
C2_Witness ==
    /\ Len(finishLog) >= 3
    /\ ticked # {}

\* C3: once an exclusive item resolved to terminate, mutex_task has left its loop,
\* and from then on no exclusive item starts or finishes, no background future is
\* polled, completed or taken from the background channel, and the state is
\* touched only by its drop.
C3_TerminateShortCircuit ==
    /\ [](stopReason = "terminate" => Returned)
    /\ [][stopReason = "terminate" =>
            /\ startLog' = startLog
            /\ finishLog' = finishLog
            /\ current' = current
            /\ ticked' = ticked
            /\ (futs' = futs \/ (pc = "drop_futs" /\ futs' = {}))
            /\ (value' = value \/ pc = "drop_value")]_vars

\* C3 witness: the mailbox returned on terminate with an item still queued and a
\* background future still in flight.
C3_Witness ==
    /\ stopReason = "terminate"
    /\ pc = "drop_futs"
    /\ mut_channel # <<>>
    /\ futs # {}

\* C4: the started hook runs at most once, nothing else starts before it has
\* completed, and it has run by the time the mailbox of a spawned actor stops.
C4_StartedFirst ==
    /\ hookRuns <= 1
    /\ \A c \in current : c.item.kind # "started" => hookRuns = 1
    /\ finishLog # <<>> => hookRuns = 1
    /\ (ctor = "returned" /\ Returned) => hookRuns = 1

\* C4 witness: started ran and a method sent through a handle ran after it.
C4_Witness ==
    /\ hookRuns = 1
    /\ Len(finishLog) >= 2

\* C5 (as stated): a Termination obtained while mutex_task was in its loop has
\* resolved only if the state's destructor has run.
C5_TerminationAfterDrop ==
    (termLive /\ termination = "resolved") => drops = 1

\* A strong handle exists: held outside (or by Addr::new, about to be returned),
\* captured by a queued or running exclusive item, held by a queued or in-flight
\* background future, or stored in the state.
HandleExists ==
    \/ extStrong > 0
    \/ ctor = "spawned"
    \/ \E i \in 1..Len(mut_channel) : mut_channel[i].cap = "strong"
    \/ \E c \in current : c.item.cap = "strong"
    \/ \E f \in futs \cup SeqToSet(fut_channel) : f.cap = "strong"
    \/ value.alive /\ value.kept

\* C6: while a strong handle exists mutex_task leaves its loop only because an
\* exclusive item resolved to terminate; a mailbox that stopped by exhaustion of
\* its channel stopped with no strong handle in existence.
C6_NoExhaustionWhileHeld ==
    /\ [][(InLoop /\ HandleExists /\ ~InLoop') => stopReason' = "terminate"]_vars
    /\ [](stopReason = "exhausted" => ~HandleExists)

\* C6 witness: the queue is drained and nothing is left to poll, no handle is
\* held outside, and the mailbox waits because an in-flight future holds one.
C6_Witness ==
    /\ pc = "acquire"
    /\ ctor = "returned"
    /\ mut_channel = <<>>
    /\ NothingToRun
    /\ extStrong = 0
    /\ StrongIn(futs) > 0

\* C7: once no strong handle is left to a spawned actor, and every running item
\* eventually resolves (FairSpec), mutex_task eventually returns and the state is
\* destroyed, whatever weak handles and pending background futures remain.
C7_DropTerminates ==
    (ctor = "returned" /\ ~HandleExists) ~> (pc = "done" /\ ~value.alive /\ drops = 1)

\* C7 witness: the mailbox stopped by exhaustion and destroyed the state while a
\* WeakAddr was held outside and the wrapper of termination() was still pending.
C7_Witness ==
    /\ pc = "done"
    /\ stopReason = "exhausted"
    /\ ~value.alive
    /\ extWeak > 0
    /\ termLive
    /\ termination = "ready"

\* C8: when the mailbox stops by exhaustion of its channel the destructor runs
\* exactly once, and every exclusive item the channel ever accepted has run to
\* completion before it: none is queued, none is running, all are in finishLog.
C8_DropAfterQueuedWork ==
    /\ drops <= 1
    /\ (stopReason = "exhausted" /\ pc = "done") => drops = 1
    /\ (stopReason = "exhausted" /\ drops = 1) => pc = "done"
    /\ stopReason = "exhausted" =>
          /\ mut_channel = <<>>
          /\ current = {}
          /\ Len(finishLog) = nextId - 1

\* C8 witness: an actor shut down by dropped handles after started and two
\* further items ran, the state destroyed.
C8_Witness ==
    /\ stopReason = "exhausted"
    /\ pc = "done"
    /\ drops = 1
    /\ Len(finishLog) >= 3

\* The last strong handle is gone and the exclusive channel is drained while a
\* timer future holding a WeakAddr is pending and the result it is to produce is
\* awaited.
C9_WeakTimerPending ==
    /\ ctor = "returned"
    /\ pc = "acquire"
    /\ ~HandleExists
    /\ mut_channel = <<>>
    /\ outcome = "waiting"
    /\ \E f \in futs \cup SeqToSet(fut_channel) : f.kind = "timer" /\ f.cap = "weak"

\* C9: a pending timer future that holds only a WeakAddr does not keep the actor
\* alive. From the moment no strong handle is left and the queue is drained no
\* tick runs and no value is delivered, the in-flight set is only ever emptied,
\* and (FairSpec) the mailbox returns, the futures are dropped and the awaited
\* result resolves to an error.
C9_WeakTimerDropped ==
    /\ [][(ctor = "returned" /\ ~HandleExists /\ mut_channel = <<>> /\ current = {}) =>
            /\ ticked' = ticked
            /\ finishLog' = finishLog
            /\ (outcome' = "value" => outcome = "value")]_vars
    /\ C9_WeakTimerPending ~> (pc = "done" /\ futs = {} /\ outcome = "error")

\* C9 witness: the mailbox stopped by exhaustion before the deadline of a timer
\* armed through a WeakAddr, whose tick never ran; the awaited result is an error.
C9_Witness ==
    /\ pc = "done"
    /\ stopReason = "exhausted"
    /\ outcome = "error"
    /\ \E a \in armed : a.cap = "weak" /\ a.fid \notin ticked /\ a.deadline > now

\* C10 (as stated): with no handle held outside and the deadline of a timeout
\* armed with a strong handle still ahead, mutex_task is in its loop.
C10_StrongTimerKeepsAlive ==
    \A a \in armed :
        (a.cap = "strong" /\ extStrong = 0 /\ a.deadline > now) => InLoop

\* C10 (amended): unless an exclusive item signalled terminate, the mailbox does
\* not return before the deadline of a timeout armed with a strong handle nor
\* before the tick its timer future enqueued has been executed.
C10_StrongTimerFiresUnlessTerminated ==
    \A a \in armed :
        (a.cap = "strong" /\ Returned /\ stopReason # "terminate") =>
            (a.deadline <= now /\ a.fid \in ticked)

\* C10 witness: no handle is held outside, and the actor shut down by exhaustion
\* after the tick of a strong timeout ran at its deadline and delivered the value.
C10_Witness ==
    /\ pc = "done"
    /\ stopReason = "exhausted"
    /\ extStrong = 0
    /\ outcome = "value"
    /\ \E a \in armed : a.cap = "strong" /\ a.fid \in ticked /\ a.deadline <= now

\* C11: termination() on a detached handle, or on any handle once mutex_task has
\* finished, puts nothing in the background channel and leaves a Termination
\* whose sender is already dropped; such a Termination resolves on the awaiting
\* task's poll alone, with no step of the mailbox.
C11_TerminationOfDeadResolves ==
    /\ [][(\/ RequestTermination("detached")
           \/ (pc = "done" /\ \E via \in Vias : RequestTermination(via)))
          => (termination' = "ready" /\ fut_channel' = fut_channel)]_vars
    /\ [](termination = "ready" => ENABLED AwaitTermination)

\* C11 witness: a Termination asked of a strong handle after the mailbox stopped
\* on a terminate signal has resolved.
C11_Witness ==
    /\ pc = "done"
    /\ stopReason = "terminate"
    /\ extStrong > 0
    /\ ~termLive
    /\ termination = "resolved"

\* C12: a Termination accepted by a running actor is pending only while its
\* wrapper sits in the background channel or the in-flight set; once mutex_task
\* has returned (on a terminate signal or by exhaustion) the wrapper is dropped
\* from wherever it was and the Termination is ready to resolve (FairSpec).
C12_TerminationResolves ==
    /\ [](termination = "pending" =>
             \E f \in futs \cup SeqToSet(fut_channel) : f.kind = "term")
    /\ [](pc = "done" => termination # "pending")
    /\ (termination = "pending" /\ Returned) ~> (termination \in {"ready", "resolved"})

\* C12 witness: a Termination obtained while the mailbox was in its loop has
\* resolved after the mailbox stopped on a terminate signal.
C12_Witness ==
    /\ pc = "done"
    /\ stopReason = "terminate"
    /\ termLive
    /\ termination = "resolved"

\* A send through a detached handle: send!, call!, call_fut or termination().
DetachedSend ==
    \/ \E mm \in SendsVia("detached") : Send("detached", mm)
    \/ \E mm \in UpcastMethods : SendUpcast("detached", mm)
    \/ \E mm \in CallMethods : Call("detached", mm)
    \/ \E kind \in CallKinds : CallFut("detached", kind)
    \/ RequestTermination("detached")

\* C13: a send through a detached handle never calls the handle's send function
\* (send_unreachable, which panics), leaves both channels of the actor as they
\* were, and a Produces it returns is one whose sender is already dropped: it
\* resolves to the cancellation error.
C13_DetachedIsInert ==
    /\ [](\A via \in Vias : Reaches(via) => SendFn(via) # "send_unreachable")
    /\ [][DetachedSend =>
            /\ mut_channel' = mut_channel
            /\ fut_channel' = fut_channel
            /\ futs' = futs
            /\ nextId' = nextId
            /\ nextFid' = nextFid
            /\ (produces' # produces => produces' = "canceled")]_vars

\* C13 witness: the actor is running with a handle held, its channels never
\* accepted anything but started, and the Produces of a call is cancelled: the
\* call went through a detached handle.
C13_Witness ==
    /\ pc = "acquire"
    /\ extStrong > 0
    /\ nextId = 2
    /\ nextFid = 1
    /\ finishLog = <<1>>
    /\ produces = "canceled"

\* A send through any handle: send!, call! or call_fut.
AnySend ==
    \/ \E via \in Vias : \E mm \in SendsVia(via) : Send(via, mm)
    \/ \E via \in Vias : \E mm \in UpcastMethods : SendUpcast(via, mm)
    \/ \E via \in Vias : \E mm \in CallMethods : Call(via, mm)
    \/ \E via \in Vias : \E kind \in CallKinds : CallFut(via, kind)

\* C14: once mutex_task has returned no exclusive item starts or finishes and no
\* background future is polled; once it has finished, a send through any handle
\* still held changes nothing of the actor, as through a detached handle, and
\* the Produces of a call is cancelled; nothing is left queued and no Produces
\* is left waiting.
C14_TerminatedIsInert ==
    /\ [][Returned =>
            /\ startLog' = startLog
            /\ finishLog' = finishLog
            /\ current' = current
            /\ wrappedPolls' = wrappedPolls
            /\ (produces' = "value" => produces = "value")]_vars
    /\ [][(pc = "done" /\ AnySend) =>
            /\ mut_channel' = mut_channel
            /\ fut_channel' = fut_channel
            /\ futs' = futs
            /\ nextId' = nextId
            /\ nextFid' = nextFid
            /\ (produces' # produces => produces' = "canceled")]_vars
    /\ [](pc = "done" =>
            /\ mut_channel = <<>>
            /\ fut_channel = <<>>
            /\ futs = {}
            /\ produces # "deferred")

\* C14 witness: the mailbox stopped on the terminate signal of the one item that
\* was ever accepted after started, a strong handle is still held, and the
\* Produces of a call made through a handle afterwards is cancelled.
C14_Witness ==
    /\ pc = "done"
    /\ stopReason = "terminate"
    /\ extStrong > 0
    /\ sends = 2
    /\ nextId = 3
    /\ nextFid = 1
    /\ produces = "canceled"

\* C20: from the moment the caller dropped the Produces of call_fut the wrapped
\* future is not polled (not even once if the wrapper had not been polled yet),
\* dropping it and completing the cancelled wrapper leave the mailbox where it
\* is, and (FairSpec) the wrapper leaves the background channel and the
\* in-flight set.
C20_DroppedCallCancelled ==
    /\ [][produces = "dropped" => wrappedPolls' = wrappedPolls]_vars
    /\ [][(DropProduces \/ \E f \in futs : Cancelled(f) /\ FutCallDone(f)) =>
            /\ pc' = pc
            /\ stopReason' = stopReason
            /\ value' = value
            /\ current' = current]_vars
    /\ (produces = "dropped") ~> (\A f \in futs \cup SeqToSet(fut_channel) : ~IsCall(f))

\* C20 witness: the wrapped future was polled once, the caller then dropped the
\* Produces, and the wrapper has left the in-flight set of a running mailbox
\* without a second poll of the wrapped future.
C20_Witness ==
    /\ InLoop
    /\ produces = "dropped"
    /\ wrappedPolls = 1
    /\ nextFid = 2
    /\ futs = {}
    /\ fut_channel = <<>>

\* C16 (as stated): once mutex_task has finished, upgrade() of a WeakAddr held
\* to the actor is a detached handle.
C16_UpgradeAfterStopDetached ==
    (pc = "done" /\ extWeak > 0) => upgrade("weak") = "detached"

\* C19: whatever handle and view an exclusive item was sent through, it sits in
\* the one mut_channel at the place its enqueue order gives it: the queue holds
\* exactly the ids that follow those already taken, in ascending order, and the
\* items start in id order.
C19_OneQueueAllViews ==
    /\ \A i \in 1..Len(mut_channel) :
          mut_channel[i].id =
              Len(startLog) + Cardinality({ c \in current : c.st = "fresh" }) + i
    /\ \A i \in 1..Len(startLog) : startLog[i] = i

\* C19 witness: an item sent through an upcast handle runs first, having been
\* enqueued first, and an item sent through the original handle waits behind it
\* in the same queue.
C19_Witness ==
    /\ \E c \in current : c.item.kind = "upcast" /\ c.item.id = 2
    /\ Len(mut_channel) = 1
    /\ mut_channel[1].kind = "method"
    /\ mut_channel[1].id = 3

\* C15: for every strong handle s to an alive actor, s.downgrade().upgrade() is not
\* detached, compares equal to s, and delivers to the same queue as s.
C15_DowngradeUpgradeRoundTrip ==
    \A r \in Regs :
        (regs[r].kind = "strong" /\ regs[r].inner # 0) =>
            LET u == WeakAddr_upgrade(downgrade(regs[r]))
            IN /\ u.inner # 0
               /\ eq(u, regs[r])
               /\ QueueOf(u) = QueueOf(regs[r])
               /\ QueueOf(u) # 0

\* A weak handle made from a strong one was upgraded while the strong one is held.
C15_Witness ==
    \E r, w, u \in Regs :
        /\ regs[r].kind = "strong" /\ regs[r].inner # 0
        /\ regs[w] = downgrade(regs[r])
        /\ r # u /\ regs[u] = WeakAddr_upgrade(regs[w])

\* C17: at every time, two handles of any kind and any view compare equal exactly
\* when they refer to the same actor allocation or are both detached; so handles
\* to two different actors are never equal, and a detached handle never equals a
\* handle that refers to an actor.
C17_EqualIffSameAllocation ==
    \A r1, r2 \in Regs :
        (Held(r1) /\ Held(r2)) =>
            (eq(regs[r1], regs[r2]) <=> regs[r1].inner = regs[r2].inner)

\* C18: a strong handle to an actor of concrete type C, upcast and then downcast to
\* C, gives Ok with a handle equal to the original that sends to the same queue;
\* downcast to another type D gives Err carrying the handle it was given, unchanged;
\* downcast of a detached handle gives Ok with a detached handle for every type.
C18_UpcastDowncast ==
    \A r \in Regs :
        regs[r].kind = "strong" =>
            LET h == regs[r]
                up == upcast(h)
            IN \A U \in ActorTypes :
                LET d == downcast(up, U)
                IN /\ (h.inner # 0 /\ U = TypeOf(h.inner)) =>
                        /\ d.ok
                        /\ d.addr.inner # 0
                        /\ d.addr.view = "concrete"
                        /\ eq(d.addr, h)
                        /\ QueueOf(d.addr) = QueueOf(h)
                   /\ (h.inner # 0 /\ U # TypeOf(h.inner)) =>
                        /\ ~d.ok
                        /\ d.addr = up
                   /\ h.inner = 0 =>
                        /\ d.ok
                        /\ d.addr.inner = 0

\* An upcast handle was downcast to its own type next to a clone of the original,
\* while a handle to an actor of the other type and a detached handle can be held.
C18_Witness ==
    \E r, r2 \in Regs :
        /\ r # r2
        /\ regs[r].kind = "strong" /\ regs[r].inner # 0
        /\ regs[r2] = downcast(upcast(regs[r]), TypeOf(regs[r].inner)).addr
        /\ regs[r2].view = "concrete" /\ regs[r].view = "dyn"

\* C28: when the spawner rejects the mailbox task Addr::new ends in the spawn
\* error and stays there: no handle of any kind exists, mutex_task never runs,
\* the started hook is never invoked, no exclusive item is queued, started or
\* finished, and the state handed to Addr::new is dropped unused.
C28_SpawnErrorNoActor ==
    /\ [](ctor = "failed" =>
            /\ ~HandleExists
            /\ extWeak = 0
            /\ pc = "idle"
            /\ hookRuns = 0
            /\ mut_channel = <<>>
            /\ current = {}
            /\ startLog = <<>>
            /\ finishLog = <<>>
            /\ nextId = 1
            /\ ~value.alive)
    /\ [][ctor = "failed" => ctor' = "failed"]_vars

\* C28 witness: spawn failed and the state was dropped, once.
C28_Witness ==
    /\ ctor = "failed"
    /\ drops = 1

\* C30: the acquire loop takes an exclusive item only when no in-flight future is
\* left to poll or complete, and moves a future from the background channel into
\* the in-flight set only when, besides, no exclusive item is queued; in the
\* execute loop, while the current item has not had its first poll, no in-flight
\* future is polled or completed and none is taken from the background channel.
C30_SelectBias ==
    /\ [][(pc = "acquire" /\ pc' = "execute") =>
            \A f \in futs : f.polled /\ ~(f.kind = "timer" /\ f.deadline <= now)
                                      /\ ~(IsCall(f) /\ (f.kind = "call_ready" \/ produces = "dropped"))]_vars
    /\ [][(pc = "acquire" /\ pc' = "acquire" /\ Len(fut_channel') < Len(fut_channel)) =>
            /\ mut_channel = <<>>
            /\ futs' = futs \cup {Head(fut_channel)}
            /\ \A f \in futs : f.polled /\ ~(f.kind = "timer" /\ f.deadline <= now)
                                      /\ ~(IsCall(f) /\ (f.kind = "call_ready" \/ produces = "dropped"))]_vars
    /\ [][(pc = "execute" /\ \E c \in current : c.st = "fresh") =>
            /\ futs' = futs
            /\ Len(fut_channel') >= Len(fut_channel)]_vars

\* C30 witness: in the acquire loop an in-flight future is ready to complete while
\* an exclusive item and a background future are both queued.
C30_Witness ==
    /\ pc = "acquire"
    /\ \E f \in futs : Ready(f) \/ CallReady(f)
    /\ mut_channel # <<>>
    /\ fut_channel # <<>>

\* C23: while the current exclusive item is suspended the mailbox can take each of
\* its background steps at once: complete an in-flight future that is ready,
\* give an in-flight future its first poll, and move a newly sent future from the
\* background channel into the in-flight set; and such a step leaves the
\* suspended item where it is.
C23_BackgroundWhileSuspended ==
    /\ [](\A c \in current : (pc = "execute" /\ c.st = "pending") =>
            /\ \A f \in futs :
                  /\ (f.kind = "timer" /\ f.deadline <= now) => ENABLED FutDone(f)
                  /\ (f.kind = "call_ready" \/ (IsCall(f) /\ produces = "dropped"))
                        => ENABLED FutCallDone(f)
                  /\ (~f.polled /\ ~(f.kind = "timer" /\ f.deadline <= now)
                                /\ ~(f.kind = "call_ready" \/ (IsCall(f) /\ produces = "dropped")))
                        => ENABLED FutPoll(f)
            /\ (fut_channel # <<>> /\ \A f \in futs : f.polled /\ ~ENABLED FutDone(f)
                                                        /\ ~ENABLED FutCallDone(f))
                  => ENABLED ExecFut)
    /\ [][(\E f \in futs : FutDone(f) \/ FutCallDone(f) \/ FutPoll(f)) \/ ExecFut
            => current' = current /\ pc' = pc]_vars

\* C23 witness: an exclusive item is suspended, and a background future that is
\* ready to complete sits in the in-flight set, moved there during the
\* suspension (the acquire loop takes no item with such a future in flight).
C23_Witness ==
    /\ pc = "execute"
    /\ \E c \in current : c.st = "pending"
    /\ \E f \in futs : f.kind = "call_ready"

\* C21: when the item of call!(addr.echo(x)) is executed and echo returns
\* Ok(Value(x)), the caller's Produces, still awaited, resolves to a value, and
\* the value it resolves to is the x the caller passed.
C21_CallReturnsValue ==
    /\ [](produces = "value" /\ asked # <<>> => result = asked)
    /\ [](result # <<>> => produces = "value")
    /\ [][\A c \in current :
            (/\ finishLog' = Append(finishLog, c.item.id)
             /\ c.item.kind = "call"
             /\ c.item.res = "ok"
             /\ produces = "deferred")
            => (produces' = "value" /\ result' = asked)]_vars

\* C21 witness: echo was called with the second value and the Produces resolved to it.
C21_Witness ==
    /\ asked = <<NumArgs>>
    /\ produces = "value"
    /\ result = <<NumArgs>>
    /\ InLoop

\* C22 (as stated): once an exclusive item has started, every background future
\* sent before that item was sent has had its first poll (or has completed).
C22_FutureStartsFirst ==
    \A p \in futsBefore :
        (\E i \in 1..Len(startLog) : startLog[i] = p[1]) =>
            \A f \in futs \cup SeqToSet(fut_channel) : f.fid <= p[2] => f.polled

\* C24: when an item built by send! or call! resolves, mutex_task leaves its loop
\* exactly if the method returned Err and the error hook returned true for it;
\* the error hook runs once for a method that returned Err and not at all for
\* one that returned Ok, and at no other step; after Ok, and after an Err for
\* which the hook returned false, the mailbox is back in its acquire loop.
C24_ErrorHookDecides ==
    /\ [][\A c \in current :
            finishLog' = Append(finishLog, c.item.id) =>
                /\ (stopReason' = "terminate") <=> (c.item.res = "err" /\ c.item.hook)
                /\ (pc' = "acquire") <=> ~(c.item.res = "err" /\ c.item.hook)
                /\ c.item.res = "err" => errorRuns' = errorRuns + 1
                /\ c.item.res = "ok" => errorRuns' = errorRuns]_vars
    /\ [][finishLog' = finishLog => errorRuns' = errorRuns]_vars
    /\ [](stopReason = "terminate" => errorRuns >= 1)

\* C24 witness: two methods returned Err, the hook returned false for each, and
\* the mailbox is in its acquire loop after the second.
C24_Witness ==
    /\ errorRuns = 2
    /\ Len(finishLog) = errorRuns + 1
    /\ stopReason = "none"
    /\ pc = "acquire"

\* C25: when a method (started included) returns Err on an actor with the default
\* error hook, mutex_task leaves its loop at that step, and from then on no
\* exclusive item starts or finishes: the items sent after the failing one stay
\* unexecuted.
C25_DefaultErrorStops ==
    /\ [][\A c \in current :
            (/\ finishLog' = Append(finishLog, c.item.id)
             /\ c.item.res = "err"
             /\ c.item.hook = TRUE)
            => (stopReason' = "terminate" /\ pc' \notin {"acquire", "execute"})]_vars
    /\ [][stopReason = "terminate" =>
            /\ startLog' = startLog
            /\ finishLog' = finishLog
            /\ current' = current]_vars
    /\ [](stopReason = "terminate" =>
            /\ startLog = finishLog
            /\ \A i \in 1..Len(mut_channel) : mut_channel[i].id > Len(finishLog))

\* C25 witness: started returned Err, the mailbox left its loop, and an item sent
\* afterwards is queued, not to be executed.
C25_Witness ==
    /\ stopReason = "terminate"
    /\ finishLog = <<1>>
    /\ errorRuns = 1
    /\ mut_channel # <<>>

\* C26: when the method of a call! item returns Err the caller's Produces is
\* cancelled at that step, whether the error hook stops the actor or not, no
\* value reaches the caller then or later, and the error went to the error hook.
C26_CallErrorCancels ==
    /\ [][\A c \in current :
            (/\ finishLog' = Append(finishLog, c.item.id)
             /\ c.item.kind = "call"
             /\ c.item.res = "err")
            => (produces' = "canceled" /\ result' = <<>> /\ errorRuns' = errorRuns + 1)]_vars
    /\ [][produces = "canceled" => (produces' = "canceled" /\ result' = <<>>)]_vars

\* C26 witness: the call returned Err, the hook returned false and the actor runs
\* on, and the Produces is cancelled.
C26_Witness ==
    /\ asked # <<>>
    /\ produces = "canceled"
    /\ errorRuns = 1
    /\ finishLog = <<1, 2>>
    /\ sends = 1
    /\ pc = "acquire"

\* C27: no call! item outlives mutex_task: when it has returned no item is
\* executing, a Produces whose call! item is still queued is cancelled once the
\* queue is dropped (CallFairSpec), and none is left waiting when it has finished.
C27_CallCancelledByTermination ==
    /\ [](Returned => current = {})
    /\ [](pc = "done" => produces # "deferred")
    /\ (Returned /\ produces = "deferred" /\ \E i \in 1..Len(mut_channel) : mut_channel[i].kind = "call")
          ~> (produces = "canceled")

\* C27 witness: started and a failing method ran, the mailbox stopped, and the
\* call! item queued behind them was dropped unexecuted: its Produces is cancelled.
C27_Witness ==
    /\ pc = "done"
    /\ stopReason = "terminate"
    /\ finishLog = <<1, 2>>
    /\ nextId = 4
    /\ \E p \in futsBefore : p[1] = 2
    /\ asked # <<>>
    /\ produces = "canceled"
    /\ result = <<>>

\* C29: one call of poll resolves a Produces by the innermost state of its chain,
\* however many receivers whose senders have sent lie before it: None gives the
\* cancellation error, Value(v) gives Ok(v), a sender dropped unsent gives the
\* cancellation error, and a sender that is alive and has not sent gives Pending
\* and leaves the Produces as the Deferred of that sender.
C29_PollByTerminalState ==
    [][ProdPoll =>
        LET last == Innermost(prod)
        IN /\ last.t = "None" => pollOut'.out = "Canceled"
           /\ last.t = "Value" => (pollOut'.out = "Ok" /\ pollOut'.v = last.v)
           /\ last.t = "Dropped" => pollOut'.out = "Canceled"
           /\ last.t = "Unsent" => (pollOut'.out = "Pending" /\ prod' = <<P("Unsent", 0)>>)
           /\ last.t \in {"None", "Value", "Dropped", "Unsent"}
           /\ pollOut'.hops = Len(prod) - 1]_vars

\* C29 witness: a poll went through two or more receivers and returned Ok with
\* the value sent by the innermost sender.
C29_Witness ==
    /\ pollOut.out = "Ok"
    /\ pollOut.v = NumArgs
    /\ pollOut.hops >= 2

\* The items whose future has been polled and has neither resolved nor been dropped.
RwExecuting(kind) == {f \in shared \cup exclusive : f.polled /\ f.kind = kind}

\* C31: in the reader/writer generation no exclusive item executes while a
\* shared item is executing, and at most one exclusive item executes at a time
\* (several shared items may execute at once: C31_Witness).
C31_ExclusiveExcludes ==
    /\ RwExecuting("Exclusive") # {} => RwExecuting("Shared") = {}
    /\ Cardinality(RwExecuting("Exclusive")) <= 1
    /\ \A f \in exclusive : f.kind = "Exclusive"
    /\ \A f \in shared : f.kind = "Shared"

C31_Witness ==
    /\ RwExecuting("Exclusive") # {}
    /\ Cardinality(rw_abandoned) >= 2

\* C32 (as stated): a shared item that has started executing is dropped
\* unfinished only when rwlock_task returns; an exclusive item that arrives
\* while shared items are in flight does not make the task drop them.
C32_SharedRunsToCompletion ==
    \A a \in rw_abandoned : a[2] = "returned"

\* C33: Timer::tick returns true only when the timer is active and its deadline
\* is at or before the current time; a Timeout timer for which it returns true
\* becomes Inactive, and it had returned no true since the timeout was set; a
\* call that returns false leaves the state of the timer as it was.
C33_TickOnlyWhenDue ==
    [][TickRun =>
        /\ tickOut'.ret => timer.st # "Inactive" /\ timer.deadline <= t_now
        /\ tickOut'.ret /\ timer.st = "Timeout" => timer' = Inactive /\ trues = 0
        /\ ~tickOut'.ret => timer' = timer]_vars

C33_Witness ==
    /\ tickOut.ret
    /\ tickOut.before.st = "Timeout"
    /\ timer = Inactive
    /\ trues = 1
    /\ ticks # <<>>

\* C34: a tick item that runs when the timer has been cleared, or has been set
\* again to a deadline that has not passed, gets false from Timer::tick and
\* changes nothing; no true is returned before the deadline the timer holds.
C34_StaleTicksHarmless ==
    [][TickRun =>
        /\ timer.st = "Inactive" \/ timer.deadline > t_now =>
              ~tickOut'.ret /\ timer' = timer /\ t_futs' = t_futs
        /\ tickOut'.ret => tickOut'.before.deadline <= t_now']_vars

C34_Witness ==
    /\ ~tickOut.ret
    /\ tickOut.before.st = "Timeout"
    /\ tickOut.before.deadline > t_now
    /\ tickOut.deadline < tickOut.before.deadline

\* The tick items in a queue that a given future of the Timer sent.
TicksOf(q, fid) == Cardinality({i \in 1..Len(q) : q[i].fid = fid})

\* C35: the future of run_with_timeout_* sends its tick item once, when it ends,
\* and not before the deadline, also when its task completed first; once the
\* Delay won the select the task is dropped and is not polled again.
C35_RunWithTimeout ==
    /\ [](\A f \in t_futs : f.kind = "run" =>
            /\ Len(f.sent) = (IF f.phase = "done" THEN 1 ELSE 0)
            /\ \A i \in 1..Len(f.sent) : f.sent[i] >= f.deadline
            /\ f.phase = "done" => f.task \in {"finished", "dropped"}
            /\ f.phase = "wait" => f.task = "finished")
    /\ [][\A f \in t_futs : f.kind = "run" /\ f.task = "dropped" => f \in t_futs']_vars
    /\ [][\A f \in t_futs : f.kind = "run" /\ TicksOf(ticks', f.fid) > TicksOf(ticks, f.fid) =>
            /\ f.phase # "done"
            /\ [f EXCEPT !.phase = "done", !.sent = <<t_now>>] \in
                    {[g EXCEPT !.task = f.task, !.polls = f.polls, !.left = f.left,
                               !.woken = f.woken] : g \in t_futs'}]_vars

C35_Witness ==
    /\ \E f \in t_futs : /\ f.kind = "run" /\ f.task = "finished" /\ f.phase = "done"
                         /\ f.deadline > 0 /\ f.sent = <<f.deadline>>
    /\ \E g \in t_futs : /\ g.kind = "run" /\ g.task = "dropped" /\ g.phase = "done"
                         /\ g.polls = 1

\* A tick of the interval the Timer holds is on its way: its future is queued or
\* in flight, or a tick item is queued or running.
TickOnItsWay ==
    \/ \E f \in futs \cup SeqToSet(fut_channel) :
            f.kind = "timer" /\ f.cap = "strong" /\ f.deadline = value.timer.deadline
    \/ \E i \in SeqToSet(mut_channel) \cup {c.item : c \in current} : i.kind = "tick"

\* C36: while the state of the actor holds an interval timer set with a strong
\* handle, the exclusive channel is not closed whatever handles are dropped
\* outside, a tick is always on its way, and mutex_task leaves its loop only on
\* a terminate signal.
C36_IntervalKeepsAlive ==
    /\ [](InLoop /\ value.timer.st = "IntervalStrong" /\ value.timer.addr = "strong" =>
            ~ChannelClosed /\ TickOnItsWay)
    /\ [][/\ InLoop
          /\ value.timer.st = "IntervalStrong"
          /\ value.timer.addr = "strong"
          /\ ~InLoop'
          => stopReason' = "terminate"]_vars

C36_Witness ==
    /\ pc = "acquire"
    /\ extStrong = 0
    /\ ctor = "returned"
    /\ ~value.kept
    /\ value.timer.st = "IntervalStrong"
    /\ value.timer.deadline = 2
    /\ mut_channel = <<>>
    /\ Cardinality(ticked) >= 2

\* No id occurs twice in a log.
NoRepeat(log) == \A i, j \in 1..Len(log) : i # j => log[i] # log[j]

\* C37: an exclusive item sent through a WeakAddr while the last Addr is being
\* dropped is run at most once, and only while the state of the actor exists:
\* no item is polled or resolves once the state has been dropped, a queued item
\* has not run, and no item is both running and queued.
C37_WeakSendRace ==
    /\ [](/\ NoRepeat(startLog)
          /\ NoRepeat(finishLog)
          /\ ~value.alive => current = {}
          /\ \A x \in SeqToSet(mut_channel) :
                /\ \A i \in 1..Len(startLog) : startLog[i] # x.id
                /\ \A c \in current : c.item.id # x.id)
    /\ [][startLog' # startLog \/ finishLog' # finishLog =>
            value.alive /\ value'.alive /\ drops' = 0]_vars

C37_Witness ==
    /\ \E c \in current : c.item.cap = "weak" /\ c.item.kind = "method"
    /\ ctor = "returned"
    /\ StrongCount = 0
    /\ extWeak > 0
    /\ value.alive

\* C38: while an item sent through an Addr is queued or running, the Arc of the
\* clone it captured keeps the AddrInner alive: a WeakAddr upgrades to an Addr
\* that is not detached, with no Addr left outside as well, and a method that
\* upgrades its own WeakAddr to set a timeout gets its future accepted.
C38_CapturedCloneKeepsAlive ==
    /\ [](\A x \in SeqToSet(mut_channel) \cup {c.item : c \in current} :
            x.cap = "strong" => ~ChannelClosed /\ upgrade("weak") = "strong")
    /\ [][\A c \in current :
            /\ c.item.cap = "strong"
            /\ c.item.effect = "set_timeout_strong"
            /\ finishLog' = Append(finishLog, c.item.id)
            => \E f \in SeqToSet(fut_channel') : f.fid = nextFid /\ f.cap = "strong"]_vars

C38_Witness ==
    /\ \E c \in current : /\ c.item.cap = "strong"
                          /\ c.item.kind = "method"
                          /\ c.item.effect = "set_timeout_strong"
    /\ ctor = "returned"
    /\ extStrong = 0
    /\ extWeak > 0
    /\ StrongCount = 1

\* What a send through the handle of register r calls: nothing when the handle
\* has no inner reference or its Weak does not upgrade, else the function in the
\* field, which panics if it is send_unreachable or if the AddrInner it is given
\* is not the AddrInner<T> it unwraps to.
DispatchPanics(r, field) ==
    /\ QueueOf(regs[r]) # 0
    /\ \/ field.name = "send_unreachable"
       \/ field.ty # TypeOf(regs[r].inner)

\* C39: after every sequence of new, detached, clone, drop, downgrade, upgrade,
\* upcast and downcast, a handle that reaches an AddrInner carries in send_mut
\* and send_fut functions of that AddrInner's own type, never send_unreachable,
\* and a handle declared for a concrete type refers to no other type.
C39_EntriesMatchTarget ==
    \A r \in Regs : Held(r) =>
        /\ ~DispatchPanics(r, entries[r].send_mut)
        /\ ~DispatchPanics(r, entries[r].send_fut)
        /\ regs[r].inner # 0 /\ regs[r].view = "concrete" =>
              entries[r].T = TypeOf(regs[r].inner)
        /\ (regs[r].view = "dyn") = (entries[r].T = "dyn")

C39_Witness ==
    \E r, r2 \in Regs :
        /\ regs[r].kind = "strong" /\ regs[r].inner = 2
        /\ entries[r] = Entries(Fn("send_mut", "D"), Fn("send_fut", "D"), "D")
        /\ regs[r2].kind = "weak" /\ regs[r2].inner = 2
        /\ entries[r2].send_mut = Fn("send_mut_upcasted", "D")
        /\ \E r3 \in Regs : Held(r3) /\ regs[r3].inner = 0
                            /\ entries[r3].send_mut.name = "send_mut_upcasted"

====
